---- MODULE Spec2Model ----
(***************************************************************************)
(* Model of the chess rules engine in src/board.py (class ChessBoard) and  *)
(* of the run loop's oracle branch in src/main.py.                         *)
(*                                                                         *)
(* The Python heap is modelled explicitly: `pieces` is the sequence of all *)
(* Piece objects ever constructed (index = object identity), and `board`   *)
(* is the 8x8 grid of references into it (0 = None).                       *)
(***************************************************************************)
EXTENDS Integers, Sequences, FiniteSets, TLC

\* src/constants.py
BOARD_SIZE == 8
SQUARE_SIZE == 80

\* src/pieces.py
PAWN == "PAWN"
KNIGHT == "KNIGHT"
BISHOP == "BISHOP"
ROOK == "ROOK"
QUEEN == "QUEEN"
KING == "KING"
WHITE == "WHITE"
BLACK == "BLACK"

\* Python's None for object references (grid cells, selected_piece) and for
\* optional tuples (en_passant_target, last_move).
None == 0
NoneT == <<>>

Rows == 0..(BOARD_SIZE - 1)

Piece(piece_type, color, position) ==
    [piece_type |-> piece_type, color |-> color, position |-> position,
     has_moved |-> FALSE, is_en_passant_vulnerable |-> FALSE]

\* The ChessBoard object together with the Piece objects it references.
\* Operators below take and return such a record `s` ("self").
\*   board[r][c]        id of the Piece referenced by the cell, or None
\*   pieces[id]         the fields of Piece object `id`
\*   valid_moves        Python list of (row, col) tuples, as a sequence

is_valid_position(row, col) ==
    0 <= row /\ row < BOARD_SIZE /\ 0 <= col /\ col < BOARD_SIZE

InSeq(x, sq) == \E k \in 1..Len(sq) : sq[k] = x

\* target is None or target.color != color
EmptyOrEnemy(s, r, c, color) ==
    s.board[r][c] = None \/ s.pieces[s.board[r][c]].color # color

\* the common loop of get_knight_moves / get_king_moves: each offset in order,
\* kept when in bounds and not occupied by a friendly piece
OffsetMoves(s, id, offsets) ==
    LET piece == s.pieces[id]
        row == piece.position[1]
        col == piece.position[2]
        cand == [k \in 1..Len(offsets) |->
                    <<row + offsets[k][1], col + offsets[k][2]>>]
        ok(q) == is_valid_position(q[1], q[2])
                 /\ EmptyOrEnemy(s, q[1], q[2], piece.color)
    IN SelectSeq(cand, ok)

\* get_pawn_moves with the starting rank of White taken for both colours
get_pawn_moves_StartRowWhite(s, id) ==
    LET piece == s.pieces[id]
        row == piece.position[1]
        col == piece.position[2]
        direction == IF piece.color = WHITE THEN -1 ELSE 1
        start_row == 6
        forward ==
            IF is_valid_position(row + direction, col)
               /\ s.board[row + direction][col] = None
            THEN <<<<row + direction, col>>>> \o
                 (IF row = start_row
                     /\ is_valid_position(row + 2 * direction, col)
                     /\ s.board[row + 2 * direction][col] = None
                  THEN <<<<row + 2 * direction, col>>>>
                  ELSE <<>>)
            ELSE <<>>
        capture(col_offset) ==
            LET new_col == col + col_offset
                new_row == row + direction
            IN IF is_valid_position(new_row, new_col)
               THEN (IF s.board[new_row][new_col] # None
                        /\ s.pieces[s.board[new_row][new_col]].color # piece.color
                     THEN <<<<new_row, new_col>>>> ELSE <<>>)
                    \o
                    (IF s.en_passant_target = <<new_row, new_col>>
                     THEN <<<<new_row, new_col>>>> ELSE <<>>)
               ELSE <<>>
    IN forward \o capture(-1) \o capture(1)

\* get_pawn_moves with the double move not nested in the single move: the
\* pawn may jump over an occupied square
get_pawn_moves_JumpsOver(s, id) ==
    LET piece == s.pieces[id]
        row == piece.position[1]
        col == piece.position[2]
        direction == IF piece.color = WHITE THEN -1 ELSE 1
        start_row == IF piece.color = WHITE THEN 6 ELSE 1
        forward ==
            (IF is_valid_position(row + direction, col)
                /\ s.board[row + direction][col] = None
             THEN <<<<row + direction, col>>>> ELSE <<>>)
            \o (IF row = start_row
                   /\ is_valid_position(row + 2 * direction, col)
                   /\ s.board[row + 2 * direction][col] = None
                THEN <<<<row + 2 * direction, col>>>>
                ELSE <<>>)
        capture(col_offset) ==
            LET new_col == col + col_offset
                new_row == row + direction
            IN IF is_valid_position(new_row, new_col)
               THEN (IF s.board[new_row][new_col] # None
                        /\ s.pieces[s.board[new_row][new_col]].color # piece.color
                     THEN <<<<new_row, new_col>>>> ELSE <<>>)
                    \o
                    (IF s.en_passant_target = <<new_row, new_col>>
                     THEN <<<<new_row, new_col>>>> ELSE <<>>)
               ELSE <<>>
    IN forward \o capture(-1) \o capture(1)

get_pawn_moves(s, id) ==
    LET piece == s.pieces[id]
        row == piece.position[1]
        col == piece.position[2]
        direction == IF piece.color = WHITE THEN -1 ELSE 1
        start_row == IF piece.color = WHITE THEN 6 ELSE 1
        forward ==
            IF is_valid_position(row + direction, col)
               /\ s.board[row + direction][col] = None
            THEN <<<<row + direction, col>>>> \o
                 (IF row = start_row
                     /\ is_valid_position(row + 2 * direction, col)
                     /\ s.board[row + 2 * direction][col] = None
                  THEN <<<<row + 2 * direction, col>>>>
                  ELSE <<>>)
            ELSE <<>>
        capture(col_offset) ==
            LET new_col == col + col_offset
                new_row == row + direction
            IN IF is_valid_position(new_row, new_col)
               THEN (IF s.board[new_row][new_col] # None
                        /\ s.pieces[s.board[new_row][new_col]].color # piece.color
                     THEN <<<<new_row, new_col>>>> ELSE <<>>)
                    \o
                    (IF s.en_passant_target = <<new_row, new_col>>
                     THEN <<<<new_row, new_col>>>> ELSE <<>>)
               ELSE <<>>
    IN forward \o capture(-1) \o capture(1)

KnightOffsets ==
    << <<-2, -1>>, <<-2, 1>>, <<-1, -2>>, <<-1, 2>>,
       <<1, -2>>, <<1, 2>>, <<2, -1>>, <<2, 1>> >>

get_knight_moves(s, id) == OffsetMoves(s, id, KnightOffsets)

\* a ray that goes on behind an enemy piece it has reached
RECURSIVE Ray_ThroughEnemy(_, _, _, _, _, _, _)
Ray_ThroughEnemy(s, color, row, col, r_dir, c_dir, i) ==
    IF i >= BOARD_SIZE THEN <<>>
    ELSE LET new_row == row + i * r_dir
             new_col == col + i * c_dir
         IN IF ~is_valid_position(new_row, new_col) THEN <<>>
            ELSE IF \/ s.board[new_row][new_col] = None
                    \/ s.pieces[s.board[new_row][new_col]].color # color
                 THEN <<<<new_row, new_col>>>>
                      \o Ray_ThroughEnemy(s, color, row, col, r_dir, c_dir, i + 1)
                 ELSE <<>>

\* one ray of get_bishop_moves / get_rook_moves: for i in range(1, BOARD_SIZE)
RECURSIVE Ray(_, _, _, _, _, _, _)
Ray(s, color, row, col, r_dir, c_dir, i) ==
    IF i >= BOARD_SIZE THEN <<>>
    ELSE LET new_row == row + i * r_dir
             new_col == col + i * c_dir
         IN IF ~is_valid_position(new_row, new_col) THEN <<>>
            ELSE IF s.board[new_row][new_col] = None
                 THEN <<<<new_row, new_col>>>>
                      \o Ray(s, color, row, col, r_dir, c_dir, i + 1)
                 ELSE IF s.pieces[s.board[new_row][new_col]].color # color
                      THEN <<<<new_row, new_col>>>>
                      ELSE <<>>

Rays(s, id, directions) ==
    LET piece == s.pieces[id]
        one(k) == Ray(s, piece.color, piece.position[1], piece.position[2],
                      directions[k][1], directions[k][2], 1)
    IN one(1) \o one(2) \o one(3) \o one(4)

BishopDirections == << <<-1, -1>>, <<-1, 1>>, <<1, -1>>, <<1, 1>> >>
RookDirections == << <<0, -1>>, <<0, 1>>, <<-1, 0>>, <<1, 0>> >>

get_bishop_moves(s, id) == Rays(s, id, BishopDirections)

get_rook_moves(s, id) == Rays(s, id, RookDirections)

get_queen_moves(s, id) == get_rook_moves(s, id) \o get_bishop_moves(s, id)

KingOffsets ==
    << <<-1, -1>>, <<-1, 0>>, <<-1, 1>>, <<0, -1>>,
       <<0, 1>>, <<1, -1>>, <<1, 0>>, <<1, 1>> >>

get_moves_without_check_validation(s, id) ==
    LET t == s.pieces[id].piece_type
    IN CASE t = PAWN -> get_pawn_moves(s, id)
         [] t = KNIGHT -> get_knight_moves(s, id)
         [] t = BISHOP -> get_bishop_moves(s, id)
         [] t = ROOK -> get_rook_moves(s, id)
         [] t = QUEEN -> get_queen_moves(s, id)
         [] t = KING -> OffsetMoves(s, id, KingOffsets)
         [] OTHER -> <<>>

Abs(x) == IF x < 0 THEN -x ELSE x

\* the test is_square_under_attack applies to the piece found at (r, c)
AttacksFrom(s, r, c, row, col) ==
    LET id == s.board[r][c]
        piece == s.pieces[id]
    IN IF piece.piece_type = PAWN
       THEN LET direction == IF piece.color = WHITE THEN -1 ELSE 1
            IN r + direction = row /\ (c - 1 = col \/ c + 1 = col)
       ELSE IF piece.piece_type = KING
            THEN Abs(r - row) <= 1 /\ Abs(c - col) <= 1
            ELSE InSeq(<<row, col>>, get_moves_without_check_validation(s, id))

is_square_under_attack(s, row, col, friendly_color) ==
    \E r \in Rows : \E c \in Rows :
        /\ s.board[r][c] # None
        /\ s.pieces[s.board[r][c]].color # friendly_color
        /\ AttacksFrom(s, r, c, row, col)

\* the first king of `color` in row-major order, or NoneT
king_position(s, color) ==
    LET ks == {q \in Rows \X Rows :
                  /\ s.board[q[1]][q[2]] # None
                  /\ s.pieces[s.board[q[1]][q[2]]].color = color
                  /\ s.pieces[s.board[q[1]][q[2]]].piece_type = KING}
    IN IF ks = {} THEN NoneT
       ELSE CHOOSE q \in ks :
               \A q2 \in ks : q[1] * BOARD_SIZE + q[2] <= q2[1] * BOARD_SIZE + q2[2]

\* is_king_in_check reporting check when no king of the colour is found
is_king_in_check_MissingKingChecked(s, color) ==
    LET kp == king_position(s, color)
    IN IF kp = NoneT THEN TRUE
       ELSE is_square_under_attack(s, kp[1], kp[2], color)

is_king_in_check(s, color) ==
    LET kp == king_position(s, color)
    IN IF kp = NoneT THEN FALSE
       ELSE is_square_under_attack(s, kp[1], kp[2], color)

HomeRow(color) == IF color = WHITE THEN 7 ELSE 0

\* can_castle_kingside with the square the king crosses not tested for attack
can_castle_kingside_TransitUntested(s, color) ==
    LET row == HomeRow(color)
        king == s.board[row][4]
        rook == s.board[row][7]
    IN IF king = None \/ rook = None THEN FALSE
       ELSE IF s.pieces[king].piece_type # KING \/ s.pieces[rook].piece_type # ROOK
       THEN FALSE
       ELSE IF s.pieces[king].has_moved \/ s.pieces[rook].has_moved THEN FALSE
       ELSE IF s.board[row][5] # None \/ s.board[row][6] # None THEN FALSE
       ELSE IF \/ is_square_under_attack(s, row, 4, color)
               \/ is_square_under_attack(s, row, 6, color)
       THEN FALSE
       ELSE TRUE

can_castle_kingside(s, color) ==
    LET row == HomeRow(color)
        king == s.board[row][4]
        rook == s.board[row][7]
    IN IF king = None \/ rook = None THEN FALSE
       ELSE IF s.pieces[king].piece_type # KING \/ s.pieces[rook].piece_type # ROOK
       THEN FALSE
       ELSE IF s.pieces[king].has_moved \/ s.pieces[rook].has_moved THEN FALSE
       ELSE IF s.board[row][5] # None \/ s.board[row][6] # None THEN FALSE
       ELSE IF \/ is_square_under_attack(s, row, 4, color)
               \/ is_square_under_attack(s, row, 5, color)
               \/ is_square_under_attack(s, row, 6, color)
       THEN FALSE
       ELSE TRUE

can_castle_queenside(s, color) ==
    LET row == HomeRow(color)
        king == s.board[row][4]
        rook == s.board[row][0]
    IN IF king = None \/ rook = None THEN FALSE
       ELSE IF s.pieces[king].piece_type # KING \/ s.pieces[rook].piece_type # ROOK
       THEN FALSE
       ELSE IF s.pieces[king].has_moved \/ s.pieces[rook].has_moved THEN FALSE
       ELSE IF \/ s.board[row][1] # None
               \/ s.board[row][2] # None
               \/ s.board[row][3] # None
       THEN FALSE
       ELSE IF \/ is_square_under_attack(s, row, 4, color)
               \/ is_square_under_attack(s, row, 3, color)
               \/ is_square_under_attack(s, row, 2, color)
       THEN FALSE
       ELSE TRUE

\* the castling part of get_king_moves (lines 201-215)
CastlingMoves(s, id) ==
    LET piece == s.pieces[id]
    IN IF ~piece.has_moved /\ ~is_king_in_check(s, piece.color)
       THEN (IF can_castle_kingside(s, piece.color)
             THEN <<<<HomeRow(piece.color), 6>>>> ELSE <<>>)
            \o
            (IF can_castle_queenside(s, piece.color)
             THEN <<<<HomeRow(piece.color), 2>>>> ELSE <<>>)
       ELSE <<>>

get_king_moves(s, id) == OffsetMoves(s, id, KingOffsets) \o CastlingMoves(s, id)

\* the dispatch at the head of get_valid_moves (lines 57-71)
PseudoLegalMoves(s, id) ==
    LET t == s.pieces[id].piece_type
    IN CASE t = PAWN -> get_pawn_moves(s, id)
         [] t = KNIGHT -> get_knight_moves(s, id)
         [] t = BISHOP -> get_bishop_moves(s, id)
         [] t = ROOK -> get_rook_moves(s, id)
         [] t = QUEEN -> get_queen_moves(s, id)
         [] t = KING -> get_king_moves(s, id)
         [] OTHER -> <<>>

SetCell(s, r, c, v) == [s EXCEPT !.board[r][c] = v]

\* lines 355-359 of would_move_cause_check: make the temporary move
SimulateMove(s, id, target_pos) ==
    LET row == s.pieces[id].position[1]
        col == s.pieces[id].position[2]
    IN [SetCell(SetCell(s, row, col, None), target_pos[1], target_pos[2], id)
          EXCEPT !.pieces[id].position = target_pos,
                 !.pieces[id].has_moved = TRUE]

\* lines 366-383: for a castling move, the rook goes to its temporary square
SimulateRook(s, rook, rook_original_pos, rook_temp_pos) ==
    IF rook # None
    THEN [SetCell(SetCell(s, rook_original_pos[1], rook_original_pos[2], None),
                  rook_temp_pos[1], rook_temp_pos[2], rook)
            EXCEPT !.pieces[rook].position = rook_temp_pos]
    ELSE s

\* RestoreMove with line 392 (piece.has_moved = original_has_moved) left out
RestoreMove_HasMovedLeft(s, id, from, target_pos, captured_piece, original_has_moved) ==
    [SetCell(SetCell(s, from[1], from[2], id),
             target_pos[1], target_pos[2], captured_piece)
       EXCEPT !.pieces[id].position = from]

\* lines 388-392: restore the original state
RestoreMove(s, id, from, target_pos, captured_piece, original_has_moved) ==
    [SetCell(SetCell(s, from[1], from[2], id),
             target_pos[1], target_pos[2], captured_piece)
       EXCEPT !.pieces[id].position = from,
              !.pieces[id].has_moved = original_has_moved]

\* RestoreRook with line 400 (rook.position = rook_original_pos) left out
RestoreRook_PositionLeft(s, rook, rook_original_pos, rook_temp_pos) ==
    IF rook_original_pos # NoneT /\ rook_temp_pos # NoneT /\ rook # None
    THEN SetCell(SetCell(s, rook_original_pos[1], rook_original_pos[2], rook),
                 rook_temp_pos[1], rook_temp_pos[2], None)
    ELSE s

\* lines 394-400: restore rook position if this was a castling move
RestoreRook(s, rook, rook_original_pos, rook_temp_pos) ==
    IF rook_original_pos # NoneT /\ rook_temp_pos # NoneT /\ rook # None
    THEN [SetCell(SetCell(s, rook_original_pos[1], rook_original_pos[2], rook),
                  rook_temp_pos[1], rook_temp_pos[2], None)
            EXCEPT !.pieces[rook].position = rook_original_pos]
    ELSE s

\* would_move_cause_check, block by block.  Returns the answer and the
\* object state the call leaves behind.
would_move_cause_check(s, id, target_pos) ==
    LET row == s.pieces[id].position[1]
        col == s.pieces[id].position[2]
        target_col == target_pos[2]
        \* store the original state
        captured_piece == s.board[target_pos[1]][target_col]
        original_has_moved == s.pieces[id].has_moved
        original_position == s.pieces[id].position
        s1 == SimulateMove(s, id, target_pos)
        \* special case for castling
        castling == s.pieces[id].piece_type = KING /\ Abs(col - target_col) > 1
        rook_original_pos ==
            IF castling THEN <<row, IF target_col = 6 THEN 7 ELSE 0>> ELSE NoneT
        rook_temp_pos ==
            IF castling THEN <<row, IF target_col = 6 THEN 5 ELSE 3>> ELSE NoneT
        rook == IF castling
                THEN s1.board[rook_original_pos[1]][rook_original_pos[2]]
                ELSE None
        s2 == IF castling
              THEN SimulateRook(s1, rook, rook_original_pos, rook_temp_pos)
              ELSE s1
        in_check == is_king_in_check(s2, s.pieces[id].color)
        s3 == RestoreMove(s2, id, original_position, target_pos,
                          captured_piece, original_has_moved)
        s4 == RestoreRook(s3, rook, rook_original_pos, rook_temp_pos)
    IN [in_check |-> in_check, s |-> s4]

\* the filter loop of get_valid_moves (lines 73-79); every call of
\* would_move_cause_check works on the state the previous one left
RECURSIVE FilterLegal(_, _, _, _)
FilterLegal(s, id, moves, k) ==
    IF k > Len(moves) THEN [legal_moves |-> <<>>, s |-> s]
    ELSE LET w == would_move_cause_check(s, id, moves[k])
             rest == FilterLegal(w.s, id, moves, k + 1)
         IN [legal_moves |-> (IF ~w.in_check THEN <<moves[k]>> ELSE <<>>)
                             \o rest.legal_moves,
             s |-> rest.s]

get_valid_moves(s, id) == FilterLegal(s, id, PseudoLegalMoves(s, id), 1)

Other(color) == IF color = WHITE THEN BLACK ELSE WHITE

\* ids of the Piece objects referenced by some grid cell
OnBoard(s) == {s.board[r][c] : r \in Rows, c \in Rows} \ {None}

\* the Piece objects ps with the flag of every pawn among the ids in `on`
\* cleared, from object i onwards; ps stays a sequence
RECURSIVE ClearVulnerable(_, _, _)
ClearVulnerable(ps, on, i) ==
    IF i > Len(ps) THEN ps
    ELSE ClearVulnerable(
             IF i \in on /\ ps[i].piece_type = PAWN
             THEN [ps EXCEPT ![i].is_en_passant_vulnerable = FALSE]
             ELSE ps,
             on, i + 1)

\* move_piece without the reset of lines 421-425
ResetVulnerable_Skipped(s) == s

\* lines 421-425: reset en passant vulnerability for all pawns on the grid
ResetVulnerable(s) ==
    [s EXCEPT !.pieces = ClearVulnerable(s.pieces, OnBoard(s), 1)]

\* CastleRook with line 436 (self.board[row][rook_col] = None) left out
CastleRook_OldSquareKept(s, row, col, target_col) ==
    LET rook_col == IF target_col > col THEN 7 ELSE 0
        new_rook_col == IF target_col > col THEN 5 ELSE 3
        rook == s.board[row][rook_col]
        moved == SetCell(s, row, new_rook_col, rook)
    IN IF rook = None THEN moved
       ELSE [moved EXCEPT !.pieces[rook].position = <<row, new_rook_col>>,
                          !.pieces[rook].has_moved = TRUE]

\* lines 427-439 of move_piece: the rook's part of a castling move.
\* rook is None makes line 438 raise after lines 436-437 have run.
CastleRook(s, row, col, target_col) ==
    LET rook_col == IF target_col > col THEN 7 ELSE 0
        new_rook_col == IF target_col > col THEN 5 ELSE 3
        rook == s.board[row][rook_col]
        moved == SetCell(SetCell(s, row, rook_col, None), row, new_rook_col, rook)
    IN IF rook = None THEN moved
       ELSE [moved EXCEPT !.pieces[rook].position = <<row, new_rook_col>>,
                          !.pieces[rook].has_moved = TRUE]

\* PlacePiece with line 454 (piece.has_moved = True) left out
PlacePiece_HasMovedLeft(s, id, target_pos) ==
    [SetCell(s, target_pos[1], target_pos[2], id)
       EXCEPT !.pieces[id].position = target_pos]

\* lines 451-454 of move_piece: move the piece
PlacePiece(s, id, target_pos) ==
    [SetCell(s, target_pos[1], target_pos[2], id)
       EXCEPT !.pieces[id].position = target_pos,
              !.pieces[id].has_moved = TRUE]

\* the target square is set by a double push but not cleared by other moves
SetEnPassant_NotCleared(s, id, row, col, pawn_double_move) ==
    LET direction == IF s.pieces[id].color = WHITE THEN -1 ELSE 1
    IN IF pawn_double_move
       THEN [s EXCEPT !.pieces[id].is_en_passant_vulnerable = TRUE,
                      !.en_passant_target = <<row + direction, col>>]
       ELSE s

\* lines 456-463 of move_piece: set en passant vulnerability
SetEnPassant(s, id, row, col, pawn_double_move) ==
    LET direction == IF s.pieces[id].color = WHITE THEN -1 ELSE 1
    IN IF pawn_double_move
       THEN [s EXCEPT !.pieces[id].is_en_passant_vulnerable = TRUE,
                      !.en_passant_target = <<row + direction, col>>]
       ELSE [s EXCEPT !.en_passant_target = NoneT]

\* Promote for a White pawn only
Promote_WhiteOnly(s, id, target_pos) ==
    LET piece == s.pieces[id]
    IN IF /\ piece.piece_type = PAWN
          /\ piece.color = WHITE /\ target_pos[1] = 0
       THEN [SetCell(s, target_pos[1], target_pos[2], Len(s.pieces) + 1)
               EXCEPT !.pieces = Append(s.pieces,
                                        Piece(QUEEN, piece.color, target_pos))]
       ELSE s

\* lines 465-469 of move_piece: pawn promotion (to queen)
Promote(s, id, target_pos) ==
    LET piece == s.pieces[id]
    IN IF /\ piece.piece_type = PAWN
          /\ \/ piece.color = WHITE /\ target_pos[1] = 0
             \/ piece.color = BLACK /\ target_pos[1] = 7
       THEN [SetCell(s, target_pos[1], target_pos[2], Len(s.pieces) + 1)
               EXCEPT !.pieces = Append(s.pieces,
                                        Piece(QUEEN, piece.color, target_pos))]
       ELSE s

\* the game-state update dropping the selection but not its cached moves
UpdateGameState_MovesKept(s, id, from, target_pos) ==
    [s EXCEPT !.last_move = <<id, from, target_pos>>,
              !.current_turn = Other(s.current_turn),
              !.selected_piece = None]

\* the game-state update leaving the selection and its cached moves standing
UpdateGameState_SelectionKept(s, id, from, target_pos) ==
    [s EXCEPT !.last_move = <<id, from, target_pos>>,
              !.current_turn = Other(s.current_turn)]

\* lines 471-475 of move_piece: update game state
UpdateGameState(s, id, from, target_pos) ==
    [s EXCEPT !.last_move = <<id, from, target_pos>>,
              !.current_turn = Other(s.current_turn),
              !.selected_piece = None,
              !.valid_moves = <<>>]

\* move_piece with line 442 (self.board[row][col] = None) left out
move_piece_OriginKept(s, id, target_pos) ==
    IF id = None \/ ~InSeq(target_pos, s.valid_moves)
    THEN [ret |-> FALSE, raised |-> FALSE, s |-> s]
    ELSE
    LET piece == s.pieces[id]
        row == piece.position[1]
        col == piece.position[2]
        target_row == target_pos[1]
        target_col == target_pos[2]
        en_passant_capture ==
            /\ piece.piece_type = PAWN
            /\ col # target_col
            /\ s.board[target_row][target_col] = None
        pawn_double_move ==
            piece.piece_type = PAWN /\ Abs(row - target_row) = 2
        s1 == ResetVulnerable(s)
        castling == piece.piece_type = KING /\ Abs(col - target_col) > 1
        s2 == IF castling THEN CastleRook(s1, row, col, target_col) ELSE s1
        s3 == s2
        \* handle en passant capture
        s4 == IF en_passant_capture THEN SetCell(s3, row, target_col, None) ELSE s3
        s5 == PlacePiece(s4, id, target_pos)
        s6 == SetEnPassant(s5, id, row, col, pawn_double_move)
        s7 == Promote(s6, id, target_pos)
        s8 == UpdateGameState(s7, id, <<row, col>>, target_pos)
    IN IF castling /\ s1.board[row][IF target_col > col THEN 7 ELSE 0] = None
       THEN [ret |-> FALSE, raised |-> TRUE, s |-> s2]
       ELSE [ret |-> TRUE, raised |-> FALSE, s |-> s8]

\* move_piece, block by block.  ret is the returned value; raised tells that
\* the castling block dereferenced a missing rook (AttributeError at line
\* 438), which leaves the statements before it done.
move_piece(s, id, target_pos) ==
    IF id = None \/ ~InSeq(target_pos, s.valid_moves)
    THEN [ret |-> FALSE, raised |-> FALSE, s |-> s]
    ELSE
    LET piece == s.pieces[id]
        row == piece.position[1]
        col == piece.position[2]
        target_row == target_pos[1]
        target_col == target_pos[2]
        en_passant_capture ==
            /\ piece.piece_type = PAWN
            /\ col # target_col
            /\ s.board[target_row][target_col] = None
        pawn_double_move ==
            piece.piece_type = PAWN /\ Abs(row - target_row) = 2
        s1 == ResetVulnerable(s)
        castling == piece.piece_type = KING /\ Abs(col - target_col) > 1
        s2 == IF castling THEN CastleRook(s1, row, col, target_col) ELSE s1
        \* normal move execution
        s3 == SetCell(s2, row, col, None)
        \* handle en passant capture
        s4 == IF en_passant_capture THEN SetCell(s3, row, target_col, None) ELSE s3
        s5 == PlacePiece(s4, id, target_pos)
        s6 == SetEnPassant(s5, id, row, col, pawn_double_move)
        s7 == Promote(s6, id, target_pos)
        s8 == UpdateGameState(s7, id, <<row, col>>, target_pos)
    IN IF castling /\ s1.board[row][IF target_col > col THEN 7 ELSE 0] = None
       THEN [ret |-> FALSE, raised |-> TRUE, s |-> s2]
       ELSE [ret |-> TRUE, raised |-> FALSE, s |-> s8]

\* integer floor division by a positive divisor, as Python's //
FloorDiv(a, b) == a \div b

\* handle_click selecting a clicked piece of either colour
handle_click_AnyColour(s, mouse_pos) ==
    LET col == FloorDiv(mouse_pos[1], SQUARE_SIZE)
        row == FloorDiv(mouse_pos[2], SQUARE_SIZE)
        clicked_piece == IF is_valid_position(row, col) THEN s.board[row][col] ELSE None
        own == clicked_piece # None
        select == LET g == get_valid_moves(s, clicked_piece)
                  IN [g.s EXCEPT !.selected_piece = clicked_piece,
                                 !.valid_moves = g.legal_moves]
    IN IF s.selected_piece = None
       THEN IF own THEN select ELSE s
       ELSE IF own THEN select
            ELSE IF InSeq(<<row, col>>, s.valid_moves)
                 THEN move_piece(s, s.selected_piece, <<row, col>>).s
                 ELSE [s EXCEPT !.selected_piece = None, !.valid_moves = <<>>]

\* handle_click dropping the selection but not its cached moves
handle_click_MovesKept(s, mouse_pos) ==
    LET col == FloorDiv(mouse_pos[1], SQUARE_SIZE)
        row == FloorDiv(mouse_pos[2], SQUARE_SIZE)
        clicked_piece == IF is_valid_position(row, col) THEN s.board[row][col] ELSE None
        own == clicked_piece # None /\ s.pieces[clicked_piece].color = s.current_turn
        select == LET g == get_valid_moves(s, clicked_piece)
                  IN [g.s EXCEPT !.selected_piece = clicked_piece,
                                 !.valid_moves = g.legal_moves]
    IN IF s.selected_piece = None
       THEN IF own THEN select ELSE s
       ELSE IF own THEN select
            ELSE IF InSeq(<<row, col>>, s.valid_moves)
                 THEN move_piece(s, s.selected_piece, <<row, col>>).s
                 ELSE [s EXCEPT !.selected_piece = None]

\* handle_click keeping the cached moves of the piece selected before when
\* another piece of the same side is clicked
handle_click_StaleMoves(s, mouse_pos) ==
    LET col == FloorDiv(mouse_pos[1], SQUARE_SIZE)
        row == FloorDiv(mouse_pos[2], SQUARE_SIZE)
        clicked_piece == IF is_valid_position(row, col) THEN s.board[row][col] ELSE None
        own == clicked_piece # None /\ s.pieces[clicked_piece].color = s.current_turn
        select == LET g == get_valid_moves(s, clicked_piece)
                  IN [g.s EXCEPT !.selected_piece = clicked_piece,
                                 !.valid_moves = g.legal_moves]
    IN IF s.selected_piece = None
       THEN IF own THEN select ELSE s
       ELSE IF own THEN [s EXCEPT !.selected_piece = clicked_piece]
            ELSE IF InSeq(<<row, col>>, s.valid_moves)
                 THEN move_piece(s, s.selected_piece, <<row, col>>).s
                 ELSE [s EXCEPT !.selected_piece = None, !.valid_moves = <<>>]

handle_click(s, mouse_pos) ==
    LET col == FloorDiv(mouse_pos[1], SQUARE_SIZE)
        row == FloorDiv(mouse_pos[2], SQUARE_SIZE)
        clicked_piece == IF is_valid_position(row, col) THEN s.board[row][col] ELSE None
        own == clicked_piece # None /\ s.pieces[clicked_piece].color = s.current_turn
        select == LET g == get_valid_moves(s, clicked_piece)
                  IN [g.s EXCEPT !.selected_piece = clicked_piece,
                                 !.valid_moves = g.legal_moves]
    IN IF s.selected_piece = None
       THEN IF own THEN select ELSE s
       ELSE IF own THEN select
            ELSE IF InSeq(<<row, col>>, s.valid_moves)
                 THEN move_piece(s, s.selected_piece, <<row, col>>).s
                 ELSE [s EXCEPT !.selected_piece = None, !.valid_moves = <<>>]

\* reset_board: the 32 Piece objects in the order they are constructed
\* (pawns column by column, Black then White; Black back rank; White back rank)
BackRank == <<ROOK, KNIGHT, BISHOP, QUEEN, KING, BISHOP, KNIGHT, ROOK>>

InitialPieces ==
    [i \in 1..32 |->
        IF i <= 16
        THEN LET col == (i - 1) \div 2
             IN IF i % 2 = 1 THEN Piece(PAWN, BLACK, <<1, col>>)
                ELSE Piece(PAWN, WHITE, <<6, col>>)
        ELSE IF i <= 24 THEN Piece(BackRank[i - 16], BLACK, <<0, i - 17>>)
        ELSE Piece(BackRank[i - 24], WHITE, <<7, i - 25>>)]

reset_board ==
    [r \in Rows |-> [c \in Rows |->
        CASE r = 1 -> 2 * c + 1
          [] r = 6 -> 2 * c + 2
          [] r = 0 -> 17 + c
          [] r = 7 -> 25 + c
          [] OTHER -> None]]

\* ChessBoard.__init__
NewChessBoard ==
    [board |-> reset_board, pieces |-> InitialPieces,
     selected_piece |-> None, valid_moves |-> <<>>,
     current_turn |-> WHITE, last_move |-> NoneT, en_passant_target |-> NoneT]

\* ---------------------------------------------------------------------
\* The environment: which clicks arrive.  A game follows one of the
\* recorded lines of play click by click and is then continued with up to
\* MaxFree arbitrary clicks.
\* ---------------------------------------------------------------------
MaxFree == 1

\* centre of square (row, col) in window coordinates, as (x, y)
Centre(row, col) ==
    <<col * SQUARE_SIZE + SQUARE_SIZE \div 2, row * SQUARE_SIZE + SQUARE_SIZE \div 2>>

\* a move as its two clicks: select the piece, click the destination
Mv(r1, c1, r2, c2) == <<Centre(r1, c1), Centre(r2, c2)>>

RECURSIVE Flatten(_)
Flatten(ss) == IF ss = <<>> THEN <<>> ELSE Head(ss) \o Flatten(Tail(ss))

Lines == <<
    \* 1. an en-passant capture that opens the rank between the capturing
    \* side's king and an enemy rook
    Flatten(<<
        Mv(6, 4, 4, 4), Mv(1, 0, 3, 0), Mv(4, 4, 3, 4), Mv(0, 0, 2, 0),
        Mv(7, 4, 6, 4), Mv(2, 0, 2, 2), Mv(6, 4, 5, 5), Mv(2, 2, 3, 2),
        Mv(5, 5, 4, 6), Mv(1, 1, 2, 1), Mv(4, 6, 3, 7), Mv(1, 3, 3, 3),
        Mv(3, 4, 2, 3) >>),
    \* 2. a double push that gives check, with an en-passant capture of the
    \* checking pawn at hand
    Flatten(<<
        Mv(6, 4, 5, 4), Mv(1, 0, 2, 0), Mv(7, 4, 6, 4), Mv(2, 0, 3, 0),
        Mv(6, 4, 5, 5), Mv(3, 0, 4, 0), Mv(5, 5, 4, 5), Mv(1, 1, 2, 1),
        Mv(6, 7, 4, 7), Mv(2, 1, 3, 1), Mv(4, 7, 3, 7), Mv(1, 6, 3, 6) >>),
    \* 3. en passant offered and declined
    Flatten(<<
        Mv(6, 4, 4, 4), Mv(1, 0, 2, 0), Mv(4, 4, 3, 4), Mv(1, 3, 3, 3),
        Mv(6, 7, 5, 7), Mv(2, 0, 3, 0) >>),
    \* 4. king steps out and back with the castling squares clear
    Flatten(<<
        Mv(6, 4, 4, 4), Mv(1, 4, 3, 4), Mv(7, 6, 5, 5), Mv(0, 1, 2, 2),
        Mv(7, 5, 4, 2), Mv(0, 5, 3, 2), Mv(7, 4, 6, 4), Mv(0, 6, 2, 5),
        Mv(6, 4, 7, 4), Mv(0, 4, 1, 4), Mv(6, 3, 5, 3), Mv(1, 4, 0, 4) >>),
    \* 5. Black in check; a pinned Black piece
    Flatten(<<
        Mv(6, 4, 4, 4), Mv(1, 2, 3, 2), Mv(7, 3, 3, 7), Mv(3, 2, 4, 2),
        Mv(3, 7, 1, 5), Mv(0, 4, 1, 5) >>),
    \* 6. Black may castle kingside; White may castle kingside; Black castles
    \* kingside; White castles kingside
    Flatten(<<
        Mv(7, 6, 5, 7), Mv(1, 6, 3, 6), Mv(6, 4, 5, 4), Mv(0, 5, 1, 6),
        Mv(7, 5, 3, 1), Mv(0, 6, 2, 7), Mv(7, 4, 7, 6), Mv(0, 4, 0, 6) >>),
    \* 7. Black captures en passant; White captures en passant; White in
    \* check
    Flatten(<<
        Mv(6, 2, 4, 2), Mv(1, 0, 2, 0), Mv(6, 6, 4, 6), Mv(1, 2, 2, 2),
        Mv(4, 2, 3, 2), Mv(1, 5, 3, 5), Mv(6, 0, 5, 0), Mv(1, 3, 3, 3),
        Mv(3, 2, 2, 3), Mv(3, 5, 4, 6), Mv(7, 5, 5, 7), Mv(1, 1, 3, 1),
        Mv(6, 5, 4, 5), Mv(4, 6, 5, 5), Mv(7, 0, 6, 0), Mv(5, 5, 6, 5) >>),
    \* 8. Black may castle queenside; White may castle queenside; Black
    \* castles queenside; White castles queenside
    Flatten(<<
        Mv(7, 1, 5, 0), Mv(1, 3, 2, 3), Mv(6, 2, 4, 2), Mv(1, 6, 3, 6),
        Mv(6, 3, 4, 3), Mv(0, 1, 2, 2), Mv(6, 4, 4, 4), Mv(1, 7, 2, 7),
        Mv(6, 6, 4, 6), Mv(2, 2, 4, 1), Mv(7, 2, 5, 4), Mv(0, 2, 2, 4),
        Mv(6, 5, 5, 5), Mv(0, 3, 1, 3), Mv(7, 3, 5, 3), Mv(2, 4, 4, 2),
        Mv(7, 6, 5, 7), Mv(0, 4, 0, 2), Mv(7, 4, 7, 2) >>),
    \* 9. Black kingside castling barred: king in check; a pinned White piece
    Flatten(<<
        Mv(6, 1, 5, 1), Mv(1, 4, 3, 4), Mv(7, 6, 5, 5), Mv(0, 5, 4, 1),
        Mv(7, 1, 5, 2), Mv(0, 6, 1, 4), Mv(5, 2, 4, 4), Mv(1, 2, 2, 2),
        Mv(4, 4, 2, 3) >>),
    \* 10. Black king returned to its square (kingside); Black king returned
    \* to its square (queenside); White rook returned to its square
    \* (kingside); White promotes with a capture
    Flatten(<<
        Mv(6, 6, 5, 6), Mv(1, 2, 2, 2), Mv(7, 5, 6, 6), Mv(1, 5, 3, 5),
        Mv(5, 6, 4, 6), Mv(1, 0, 2, 0), Mv(6, 7, 4, 7), Mv(1, 6, 2, 6),
        Mv(7, 7, 5, 7), Mv(1, 4, 2, 4), Mv(5, 7, 7, 7), Mv(0, 5, 4, 1),
        Mv(4, 6, 3, 5), Mv(0, 4, 0, 5), Mv(6, 6, 4, 4), Mv(0, 3, 0, 4),
        Mv(3, 5, 2, 4), Mv(4, 1, 3, 0), Mv(7, 1, 5, 0), Mv(1, 1, 2, 1),
        Mv(2, 4, 1, 3), Mv(2, 2, 3, 2), Mv(1, 3, 0, 4), Mv(0, 5, 0, 4),
        Mv(5, 0, 7, 1), Mv(0, 2, 3, 5), Mv(4, 4, 5, 5), Mv(0, 6, 2, 5),
        Mv(6, 4, 4, 4), Mv(3, 0, 5, 2), Mv(6, 1, 5, 2), Mv(0, 1, 1, 3),
        Mv(5, 5, 6, 6), Mv(3, 5, 2, 4), Mv(7, 6, 6, 4), Mv(0, 7, 0, 6) >>),
    \* 11. Black kingside castling barred: destination attacked; Black
    \* kingside castling barred: transit square attacked
    Flatten(<<
        Mv(7, 6, 5, 5), Mv(1, 6, 3, 6), Mv(6, 0, 4, 0), Mv(1, 4, 2, 4),
        Mv(6, 7, 5, 7), Mv(0, 5, 5, 0), Mv(5, 5, 3, 4), Mv(5, 0, 2, 3),
        Mv(3, 4, 2, 6), Mv(1, 2, 2, 2), Mv(6, 3, 5, 3), Mv(0, 6, 1, 4),
        Mv(7, 2, 4, 5), Mv(2, 3, 1, 2), Mv(4, 5, 6, 3), Mv(1, 2, 2, 1),
        Mv(2, 6, 1, 4) >>),
    \* 12. Black has no legal move
    Flatten(<<
        Mv(6, 4, 4, 4), Mv(1, 5, 3, 5), Mv(6, 7, 5, 7), Mv(1, 7, 3, 7),
        Mv(6, 2, 4, 2), Mv(1, 1, 3, 1), Mv(7, 3, 4, 6), Mv(0, 2, 2, 0),
        Mv(4, 6, 2, 6) >>),
    \* 13. White kingside castling barred: king in check
    Flatten(<<
        Mv(7, 6, 5, 5), Mv(1, 7, 2, 7), Mv(6, 6, 5, 6), Mv(0, 6, 2, 5),
        Mv(5, 6, 4, 6), Mv(1, 1, 3, 1), Mv(6, 3, 5, 3), Mv(1, 2, 2, 2),
        Mv(7, 5, 5, 7), Mv(0, 3, 3, 0) >>),
    \* 14. Black promotes with a capture
    Flatten(<<
        Mv(6, 2, 5, 2), Mv(1, 1, 3, 1), Mv(6, 0, 5, 0), Mv(3, 1, 4, 1),
        Mv(7, 3, 4, 0), Mv(4, 1, 5, 0), Mv(4, 0, 4, 2), Mv(5, 0, 6, 1),
        Mv(4, 2, 6, 0), Mv(6, 1, 7, 0) >>),
    \* 15. White promotes
    Flatten(<<
        Mv(6, 6, 4, 6), Mv(0, 6, 2, 5), Mv(4, 6, 3, 6), Mv(1, 4, 3, 4),
        Mv(6, 5, 4, 5), Mv(3, 4, 4, 4), Mv(3, 6, 2, 5), Mv(1, 7, 2, 7),
        Mv(2, 5, 1, 6), Mv(0, 7, 1, 7), Mv(1, 6, 0, 6) >>),
    \* 16. White kingside castling barred: destination attacked
    Flatten(<<
        Mv(7, 6, 5, 7), Mv(0, 1, 2, 2), Mv(5, 7, 3, 6), Mv(1, 3, 3, 3),
        Mv(3, 6, 5, 7), Mv(0, 6, 2, 5), Mv(6, 4, 5, 4), Mv(0, 3, 2, 3),
        Mv(7, 5, 5, 3), Mv(1, 7, 3, 7), Mv(6, 5, 5, 5), Mv(2, 3, 6, 7) >>),
    \* 17. White king returned to its square (kingside); White rook returned
    \* to its square (queenside)
    Flatten(<<
        Mv(7, 1, 5, 0), Mv(1, 2, 2, 2), Mv(6, 1, 4, 1), Mv(0, 6, 2, 7),
        Mv(7, 6, 5, 5), Mv(1, 4, 3, 4), Mv(7, 2, 6, 1), Mv(2, 7, 3, 5),
        Mv(6, 6, 5, 6), Mv(1, 6, 3, 6), Mv(7, 0, 7, 2), Mv(0, 7, 0, 6),
        Mv(6, 7, 5, 7), Mv(0, 5, 2, 3), Mv(6, 3, 5, 3), Mv(2, 3, 1, 2),
        Mv(5, 5, 6, 7), Mv(3, 5, 4, 7), Mv(7, 3, 6, 3), Mv(1, 3, 3, 3),
        Mv(7, 2, 7, 0), Mv(0, 3, 1, 3), Mv(7, 4, 7, 3), Mv(1, 2, 3, 0),
        Mv(7, 5, 6, 6), Mv(0, 4, 0, 5), Mv(7, 3, 7, 4), Mv(2, 2, 3, 2) >>),
    \* 18. Black queenside castling barred: transit square attacked; Black
    \* rook returned to its square (queenside); White kingside castling
    \* barred: transit square attacked
    Flatten(<<
        Mv(6, 2, 5, 2), Mv(1, 7, 2, 7), Mv(6, 0, 4, 0), Mv(1, 2, 2, 2),
        Mv(6, 1, 4, 1), Mv(1, 5, 3, 5), Mv(7, 0, 5, 0), Mv(1, 6, 2, 6),
        Mv(7, 6, 5, 7), Mv(1, 3, 2, 3), Mv(5, 7, 3, 6), Mv(0, 2, 2, 4),
        Mv(6, 4, 4, 4), Mv(0, 1, 1, 3), Mv(7, 3, 6, 4), Mv(1, 1, 3, 1),
        Mv(3, 6, 1, 5), Mv(2, 4, 4, 2), Mv(6, 3, 4, 3), Mv(1, 3, 3, 4),
        Mv(6, 4, 6, 3), Mv(0, 3, 2, 1), Mv(6, 3, 5, 4), Mv(0, 0, 0, 2),
        Mv(1, 5, 0, 7), Mv(0, 2, 0, 0), Mv(0, 7, 1, 5), Mv(3, 4, 1, 5),
        Mv(5, 4, 4, 5), Mv(3, 1, 4, 0), Mv(4, 3, 3, 3), Mv(4, 2, 2, 0),
        Mv(4, 5, 5, 6), Mv(2, 1, 4, 3), Mv(7, 2, 2, 7), Mv(4, 3, 3, 2),
        Mv(5, 0, 6, 0), Mv(2, 0, 7, 5), Mv(5, 6, 5, 4), Mv(1, 5, 0, 7),
        Mv(6, 5, 4, 5), Mv(3, 2, 3, 0), Mv(2, 7, 0, 5), Mv(7, 5, 6, 4) >>),
    \* 19. White has no legal move
    Flatten(<<
        Mv(7, 1, 5, 2), Mv(0, 6, 2, 7), Mv(5, 2, 3, 3), Mv(1, 1, 3, 1),
        Mv(3, 3, 2, 1), Mv(1, 4, 2, 4), Mv(6, 5, 4, 5), Mv(0, 3, 3, 6),
        Mv(2, 1, 0, 2), Mv(1, 2, 3, 2), Mv(0, 2, 2, 1), Mv(1, 5, 2, 5),
        Mv(6, 7, 5, 7), Mv(3, 6, 5, 6) >>),
    \* 20. White queenside castling barred: transit square attacked
    Flatten(<<
        Mv(6, 1, 5, 1), Mv(1, 3, 2, 3), Mv(6, 2, 5, 2), Mv(0, 1, 2, 0),
        Mv(5, 1, 4, 1), Mv(1, 6, 3, 6), Mv(6, 4, 4, 4), Mv(0, 3, 1, 3),
        Mv(7, 1, 5, 0), Mv(1, 3, 4, 0), Mv(7, 3, 6, 4), Mv(2, 0, 0, 1),
        Mv(7, 2, 6, 1), Mv(1, 2, 2, 2) >>),
    \* 21. Black rook returned to its square (kingside); White king returned
    \* to its square (queenside)
    Flatten(<<
        Mv(6, 3, 4, 3), Mv(0, 1, 2, 2), Mv(7, 3, 5, 3), Mv(1, 0, 2, 0),
        Mv(5, 3, 1, 7), Mv(2, 2, 3, 4), Mv(7, 2, 4, 5), Mv(3, 4, 5, 3),
        Mv(7, 4, 6, 3), Mv(1, 3, 2, 3), Mv(6, 7, 5, 7), Mv(1, 5, 3, 5),
        Mv(4, 5, 5, 6), Mv(1, 6, 2, 6), Mv(4, 3, 3, 3), Mv(0, 2, 1, 3),
        Mv(6, 1, 5, 1), Mv(0, 6, 2, 5), Mv(1, 7, 0, 6), Mv(2, 0, 3, 0),
        Mv(6, 3, 7, 3), Mv(5, 3, 6, 5), Mv(7, 3, 6, 3), Mv(1, 1, 2, 1),
        Mv(0, 6, 1, 7), Mv(6, 5, 4, 4), Mv(6, 3, 7, 4), Mv(0, 0, 0, 2),
        Mv(1, 7, 1, 4), Mv(0, 5, 1, 4), Mv(7, 7, 6, 7), Mv(0, 7, 2, 7),
        Mv(7, 1, 5, 2), Mv(1, 3, 2, 2), Mv(5, 6, 2, 3), Mv(2, 2, 1, 1),
        Mv(7, 0, 7, 2), Mv(2, 7, 0, 7), Mv(2, 3, 5, 0) >>),
    \* 22. White queenside castling barred: destination attacked
    Flatten(<<
        Mv(6, 3, 4, 3), Mv(0, 1, 2, 2), Mv(7, 1, 5, 0), Mv(1, 3, 2, 3),
        Mv(6, 4, 4, 4), Mv(0, 3, 1, 3), Mv(7, 2, 3, 6), Mv(1, 7, 2, 7),
        Mv(3, 6, 2, 7), Mv(0, 7, 1, 7), Mv(7, 6, 5, 7), Mv(1, 0, 2, 0),
        Mv(4, 4, 3, 4), Mv(1, 3, 5, 7), Mv(6, 2, 4, 2), Mv(5, 7, 5, 3),
        Mv(6, 6, 4, 6), Mv(5, 3, 5, 2), Mv(7, 3, 6, 3), Mv(0, 6, 2, 7) >>),
    \* 23. en-passant capture by White rejected by the legality filter
    Flatten(<<
        Mv(6, 7, 4, 7), Mv(1, 1, 3, 1), Mv(6, 6, 4, 6), Mv(1, 0, 2, 0),
        Mv(6, 5, 4, 5), Mv(0, 2, 1, 1), Mv(6, 0, 4, 0), Mv(0, 6, 2, 5),
        Mv(4, 5, 3, 5), Mv(1, 7, 2, 7), Mv(7, 4, 6, 5), Mv(2, 5, 4, 4),
        Mv(6, 5, 5, 4), Mv(4, 4, 5, 6), Mv(4, 6, 3, 6), Mv(0, 0, 1, 0),
        Mv(6, 1, 5, 1), Mv(1, 1, 7, 7), Mv(7, 2, 5, 0), Mv(7, 7, 3, 3),
        Mv(5, 4, 4, 3), Mv(1, 4, 3, 4) >>),
    \* 24. Black queenside castling barred: king in check
    Flatten(<<
        Mv(6, 3, 4, 3), Mv(1, 6, 2, 6), Mv(4, 3, 3, 3), Mv(0, 6, 2, 7),
        Mv(7, 2, 6, 3), Mv(1, 5, 2, 5), Mv(6, 3, 3, 6), Mv(1, 1, 2, 1),
        Mv(7, 3, 5, 3), Mv(0, 1, 2, 0), Mv(3, 3, 2, 3), Mv(2, 1, 3, 1),
        Mv(5, 3, 5, 2), Mv(1, 2, 3, 2), Mv(5, 2, 4, 1), Mv(3, 2, 4, 2),
        Mv(6, 5, 4, 5), Mv(0, 2, 1, 1), Mv(4, 1, 4, 0), Mv(2, 7, 0, 6),
        Mv(2, 3, 1, 4), Mv(0, 3, 1, 2), Mv(1, 4, 0, 5) >>),
    \* 25. White queenside castling barred: king in check
    Flatten(<<
        Mv(6, 6, 4, 6), Mv(0, 1, 2, 2), Mv(6, 7, 5, 7), Mv(1, 3, 2, 3),
        Mv(7, 7, 6, 7), Mv(1, 6, 2, 6), Mv(6, 3, 5, 3), Mv(0, 0, 0, 1),
        Mv(5, 7, 4, 7), Mv(0, 3, 1, 3), Mv(4, 7, 3, 7), Mv(2, 2, 4, 1),
        Mv(7, 6, 5, 7), Mv(4, 1, 3, 3), Mv(7, 1, 5, 2), Mv(1, 3, 0, 3),
        Mv(5, 2, 3, 1), Mv(2, 6, 3, 7), Mv(7, 2, 6, 3), Mv(3, 3, 5, 4),
        Mv(6, 3, 4, 1), Mv(1, 5, 2, 5), Mv(7, 3, 6, 3), Mv(5, 4, 6, 2) >>),
    \* 26. Black castles queenside past an attacked b-file square
    Flatten(<<
        Mv(6, 0, 4, 0), Mv(1, 5, 2, 5), Mv(6, 7, 4, 7), Mv(1, 4, 3, 4),
        Mv(7, 0, 5, 0), Mv(1, 2, 2, 2), Mv(6, 3, 5, 3), Mv(1, 3, 3, 3),
        Mv(6, 1, 5, 1), Mv(0, 1, 1, 3), Mv(7, 7, 6, 7), Mv(1, 1, 3, 1),
        Mv(7, 3, 6, 3), Mv(0, 5, 3, 2), Mv(4, 0, 3, 0), Mv(3, 2, 0, 5),
        Mv(6, 3, 5, 4), Mv(0, 2, 1, 1), Mv(6, 5, 5, 5), Mv(3, 4, 4, 4),
        Mv(6, 7, 5, 7), Mv(0, 3, 3, 0), Mv(7, 2, 6, 3), Mv(0, 6, 2, 7),
        Mv(5, 4, 1, 0) >>),
    \* 27. Black promotes
    Flatten(<<
        Mv(7, 1, 5, 2), Mv(1, 1, 2, 1), Mv(7, 6, 5, 7), Mv(1, 2, 3, 2),
        Mv(5, 2, 4, 0), Mv(2, 1, 3, 1), Mv(4, 0, 2, 1), Mv(0, 3, 1, 2),
        Mv(7, 7, 7, 6), Mv(3, 2, 4, 2), Mv(2, 1, 3, 3), Mv(1, 2, 3, 4),
        Mv(6, 3, 4, 3), Mv(4, 2, 5, 3), Mv(6, 4, 4, 4), Mv(0, 2, 1, 1),
        Mv(6, 1, 4, 1), Mv(3, 4, 3, 5), Mv(7, 2, 5, 0), Mv(1, 1, 2, 2),
        Mv(7, 3, 6, 4), Mv(3, 5, 3, 4), Mv(7, 4, 7, 2), Mv(1, 0, 2, 0),
        Mv(5, 0, 6, 1), Mv(5, 3, 6, 4), Mv(6, 0, 5, 0), Mv(6, 4, 7, 4) >>),
    \* 28. White castles queenside past an attacked b-file square
    Flatten(<<
        Mv(7, 1, 5, 0), Mv(1, 4, 3, 4), Mv(6, 2, 4, 2), Mv(1, 3, 2, 3),
        Mv(6, 7, 5, 7), Mv(0, 6, 2, 5), Mv(5, 0, 7, 1), Mv(0, 2, 3, 5),
        Mv(7, 1, 5, 2), Mv(3, 5, 7, 1), Mv(6, 3, 5, 3), Mv(2, 5, 4, 4),
        Mv(7, 2, 2, 7), Mv(0, 5, 1, 4), Mv(2, 7, 6, 3), Mv(0, 4, 0, 6),
        Mv(5, 2, 4, 0), Mv(0, 6, 0, 7), Mv(6, 3, 3, 0), Mv(1, 7, 2, 7),
        Mv(6, 5, 4, 5), Mv(4, 4, 6, 3), Mv(4, 5, 3, 4), Mv(0, 3, 0, 2),
        Mv(4, 2, 3, 2), Mv(1, 0, 2, 0), Mv(7, 3, 5, 1), Mv(7, 1, 6, 0) >>),
    \* 29. Black queenside castling barred: destination attacked
    Flatten(<<
        Mv(7, 6, 5, 7), Mv(1, 7, 3, 7), Mv(6, 1, 5, 1), Mv(1, 4, 2, 4),
        Mv(6, 6, 5, 6), Mv(0, 7, 1, 7), Mv(6, 4, 5, 4), Mv(2, 4, 3, 4),
        Mv(6, 5, 4, 5), Mv(0, 5, 4, 1), Mv(7, 4, 6, 4), Mv(0, 3, 4, 7),
        Mv(6, 4, 5, 3), Mv(1, 3, 3, 3), Mv(5, 7, 3, 6), Mv(3, 3, 4, 3),
        Mv(5, 6, 4, 6), Mv(4, 7, 5, 7), Mv(3, 6, 5, 5), Mv(4, 1, 3, 0),
        Mv(5, 5, 7, 4), Mv(0, 2, 4, 6), Mv(7, 7, 7, 6), Mv(1, 0, 2, 0),
        Mv(7, 3, 4, 6), Mv(5, 7, 6, 6), Mv(7, 2, 5, 0), Mv(0, 1, 2, 2),
        Mv(6, 2, 5, 2) >>),
    \* 30. en-passant capture by Black rejected by the legality filter
    Flatten(<<
        Mv(6, 2, 4, 2), Mv(0, 1, 2, 0), Mv(6, 4, 4, 4), Mv(1, 3, 3, 3),
        Mv(6, 7, 4, 7), Mv(1, 6, 3, 6), Mv(6, 6, 5, 6), Mv(3, 6, 4, 7),
        Mv(7, 7, 5, 7), Mv(1, 5, 3, 5), Mv(6, 1, 5, 1), Mv(2, 0, 0, 1),
        Mv(7, 5, 6, 4), Mv(3, 3, 4, 2), Mv(7, 2, 5, 0), Mv(0, 4, 1, 5),
        Mv(7, 1, 5, 2), Mv(0, 2, 1, 3), Mv(5, 0, 4, 1), Mv(1, 5, 2, 4),
        Mv(7, 0, 7, 1), Mv(2, 4, 3, 4), Mv(5, 1, 4, 2), Mv(3, 5, 4, 4),
        Mv(7, 1, 7, 2), Mv(0, 1, 2, 0), Mv(5, 7, 4, 7), Mv(1, 7, 2, 7),
        Mv(4, 1, 3, 2), Mv(0, 3, 0, 2), Mv(6, 4, 4, 6), Mv(0, 2, 0, 3),
        Mv(7, 3, 5, 1), Mv(1, 3, 2, 4), Mv(6, 3, 4, 3) >>),
    \* 31. clicks on an empty square, on an enemy piece and beside the grid
    \* with nothing selected; then each side selects a pawn, selects a
    \* knight instead and moves the knight; then White selects a pawn and
    \* clicks an empty square it cannot reach, selects it again and clicks
    \* an enemy pawn it cannot capture
    << Centre(3, 3), Centre(1, 0), Centre(0, 8),
       Centre(6, 4), Centre(7, 1), Centre(5, 2),
       Centre(1, 4), Centre(0, 6), Centre(2, 5),
       Centre(6, 0), Centre(3, 3), Centre(6, 0), Centre(1, 0) >>,
    \* 32. the en-passant capture of line 1, after which the rook takes the
    \* king it attacks along the opened rank; White plays on without a king
    Flatten(<<
        Mv(6, 4, 4, 4), Mv(1, 0, 3, 0), Mv(4, 4, 3, 4), Mv(0, 0, 2, 0),
        Mv(7, 4, 6, 4), Mv(2, 0, 2, 2), Mv(6, 4, 5, 5), Mv(2, 2, 3, 2),
        Mv(5, 5, 4, 6), Mv(1, 1, 2, 1), Mv(4, 6, 3, 7), Mv(1, 3, 3, 3),
        Mv(3, 4, 2, 3), Mv(3, 2, 3, 7), Mv(6, 0, 4, 0) >>)
  >>

\* points a click may land on: square centres, and one column right of the
\* board (main.py routes clicks with x <= WIDTH to the board)
MousePositions == {Centre(r, c) : r \in Rows, c \in 0..BOARD_SIZE}

\* ---------------------------------------------------------------------
\* src/powerups.py: the PowerUpSystem object
\* ---------------------------------------------------------------------

WIDTH == BOARD_SIZE * SQUARE_SIZE
HEIGHT == BOARD_SIZE * SQUARE_SIZE

PAWN_FORWARD_CAPTURE == "PAWN_FORWARD_CAPTURE"
KNIGHT_EXTENDED_RANGE == "KNIGHT_EXTENDED_RANGE"
RANDOM_PIECE_REMOVAL == "RANDOM_PIECE_REMOVAL"
POISONED_PAWN == "POISONED_PAWN"

\* self.available_powerups (the colour of a button is left out)
available_powerups ==
    << [powerup |-> PAWN_FORWARD_CAPTURE,
        text |-> "Pawns can capture forward", type |-> "permanent"],
       [powerup |-> KNIGHT_EXTENDED_RANGE,
        text |-> "Knights move further", type |-> "permanent"],
       [powerup |-> RANDOM_PIECE_REMOVAL,
        text |-> "Remove random piece", type |-> "one-time"],
       [powerup |-> POISONED_PAWN,
        text |-> "Poisoned Pawn", type |-> "consumable"] >>

\* PowerUpSystem.__init__: the fields the selection of a powerup reads and
\* writes (fonts, messages and timers are display state)
NewPowerUpSystem ==
    [white_moves_count |-> 0,
     active_powerups |-> {},
     show_powerup_selection |-> FALSE,
     selected_powerup |-> NoneT,
     consumables |-> <<>>,
     consumable_buttons |-> <<>>,
     selecting_pawn_for_poison |-> FALSE,
     buttons |-> <<>>,
     current_powerup_choices |-> <<>>,
     poisoned_pawns |-> <<>>,
     poison_clouds |-> <<>>]

\* random.sample(self.available_powerups, 2): the lists it can return
PowerupSamples ==
    {<<available_powerups[ij[1]], available_powerups[ij[2]]>> :
        ij \in {q \in (1..Len(available_powerups))
                        \X (1..Len(available_powerups)) : q[1] # q[2]}}

\* the rectangle of button number i (from 0) of _create_powerup_buttons,
\* as <<x, y, width, height>>
ButtonRect(i) ==
    LET button_width == 200
        button_height == 80
        button_spacing == 40
        total_width == 2 * button_width + button_spacing
        start_x == FloorDiv(WIDTH - total_width, 2)
        start_y == FloorDiv(HEIGHT, 2) - FloorDiv(button_height, 2)
    IN <<start_x + i * (button_width + button_spacing), start_y,
         button_width, button_height>>

\* pygame.Rect.collidepoint
collidepoint(rect, pos) ==
    /\ rect[1] <= pos[1] /\ pos[1] < rect[1] + rect[3]
    /\ rect[2] <= pos[2] /\ pos[2] < rect[2] + rect[4]

\* _create_powerup_buttons: one button per current choice
create_powerup_buttons(p) ==
    [p EXCEPT !.buttons =
        [i \in 1..Len(p.current_powerup_choices) |->
            [rect |-> ButtonRect(i - 1),
             powerup |-> p.current_powerup_choices[i].powerup,
             text |-> p.current_powerup_choices[i].text,
             type |-> p.current_powerup_choices[i].type]]]

\* increment_move_counter, `sample` being what random.sample returns
increment_move_counter(p, sample) ==
    LET p1 == [p EXCEPT !.white_moves_count = p.white_moves_count + 1]
    IN IF p1.white_moves_count % 5 = 0
       THEN [create_powerup_buttons(
                [p1 EXCEPT !.current_powerup_choices = sample])
               EXCEPT !.show_powerup_selection = TRUE]
       ELSE p1

\* the index of the first button that contains pos, or 0
FirstButtonAt(p, pos) ==
    LET hits == {i \in 1..Len(p.buttons) : collidepoint(p.buttons[i].rect, pos)}
    IN IF hits = {} THEN 0 ELSE CHOOSE i \in hits : \A j \in hits : i <= j

\* PowerUpSystem.handle_click: the returned value and the object state
powerup_handle_click(p, pos) ==
    IF p.selecting_pawn_for_poison THEN [ret |-> FALSE, p |-> p]
    ELSE IF ~p.show_powerup_selection THEN [ret |-> FALSE, p |-> p]
    ELSE LET i == FirstButtonAt(p, pos)
         IN IF i = 0 THEN [ret |-> FALSE, p |-> p]
            ELSE LET button == p.buttons[i]
                     p1 == [p EXCEPT !.selected_powerup = button.powerup]
                     p2 == IF button.type = "permanent"
                           THEN [p1 EXCEPT !.active_powerups =
                                    p1.active_powerups \cup {button.powerup}]
                           ELSE IF button.type = "consumable"
                           THEN [p1 EXCEPT !.consumables =
                                    Append(p1.consumables,
                                           [powerup |-> button.powerup,
                                            text |-> button.text])]
                           ELSE p1
                 IN [ret |-> TRUE,
                     p |-> [p2 EXCEPT !.show_powerup_selection = FALSE]]

\* the first occurrence of x taken out of the list sq, as list.remove
RECURSIVE ListRemove(_, _)
ListRemove(sq, x) ==
    IF sq = <<>> THEN <<>>
    ELSE IF Head(sq) = x THEN Tail(sq)
    ELSE <<Head(sq)>> \o ListRemove(Tail(sq), x)

\* the squares of the 3x3 block around a centre that lie on the board, in
\* the order the two loops of PoisonCloud.__init__ append them
RECURSIVE AffectedFrom(_, _)
AffectedFrom(center_position, k) ==
    IF k > 9 THEN <<>>
    ELSE LET row == center_position[1] + ((k - 1) \div 3) - 1
             col == center_position[2] + ((k - 1) % 3) - 1
         IN (IF 0 <= row /\ row < 8 /\ 0 <= col /\ col < 8
             THEN <<<<row, col>>>> ELSE <<>>)
            \o AffectedFrom(center_position, k + 1)

\* PoisonCloud.__init__
PoisonCloud(center_position, duration) ==
    [center_position |-> center_position,
     total_duration |-> duration,
     turns_remaining |-> duration,
     created_on_turn_count |-> 0,
     last_decremented_on_turn_count |-> 0,
     affected_squares |-> AffectedFrom(center_position, 1)]

\* the default of PoisonCloud's duration parameter
DefaultDuration == 3

\* PowerUpSystem.select_pawn_for_poison; pawn is the id of a Piece
select_pawn_for_poison(p, pawn) ==
    [p EXCEPT !.poisoned_pawns = Append(p.poisoned_pawns, pawn),
              !.selecting_pawn_for_poison = FALSE]

\* create_consumable_buttons: one button per consumable, below each other
\* (text and colour of a button are display state)
create_consumable_buttons(p, sidebar_start_x, sidebar_width) ==
    LET button_height == 30
        button_spacing == 5
        y_position == 330
    IN [p EXCEPT !.consumable_buttons =
           [k \in 1..Len(p.consumables) |->
               [rect |-> <<sidebar_start_x,
                           y_position + (k - 1) * (button_height + button_spacing),
                           sidebar_width, button_height>>,
                powerup |-> p.consumables[k].powerup,
                index |-> k - 1]]]

\* draw_consumables: the buttons are created when there are consumables
\* and no buttons
draw_consumables(p, sidebar_start_x, sidebar_width) ==
    IF p.consumables # <<>> /\ p.consumable_buttons = <<>>
    THEN create_consumable_buttons(p, sidebar_start_x, sidebar_width)
    ELSE p

\* list.pop(index), index counted from 0: the list that is left
ListPop(sq, index) ==
    SubSeq(sq, 1, index) \o SubSeq(sq, index + 2, Len(sq))

\* the index of the first consumable button that contains pos, or 0
FirstConsumableButtonAt(p, pos) ==
    LET hits == {k \in 1..Len(p.consumable_buttons) :
                    collidepoint(p.consumable_buttons[k].rect, pos)}
    IN IF hits = {} THEN 0 ELSE CHOOSE k \in hits : \A j \in hits : k <= j

\* handle_consumable_click: the returned value and the object state;
\* raised is set where list.pop raises IndexError
handle_consumable_click(p, pos) ==
    LET k == FirstConsumableButtonAt(p, pos)
    IN IF k = 0 THEN [ret |-> FALSE, raised |-> FALSE, p |-> p]
       ELSE LET button == p.consumable_buttons[k]
                p1 == [p EXCEPT !.selecting_pawn_for_poison = TRUE]
            IN IF button.powerup # POISONED_PAWN
               THEN [ret |-> TRUE, raised |-> FALSE, p |-> p]
               ELSE IF button.index >= Len(p1.consumables)
               THEN [ret |-> FALSE, raised |-> TRUE, p |-> p1]
               ELSE [ret |-> TRUE, raised |-> FALSE,
                     p |-> [p1 EXCEPT
                              !.consumables =
                                  ListPop(p1.consumables, button.index),
                              !.consumable_buttons = <<>>]]

\* cancel_pawn_selection
cancel_pawn_selection(p) ==
    IF p.selecting_pawn_for_poison
    THEN [p EXCEPT !.selecting_pawn_for_poison = FALSE,
                   !.consumables =
                       Append(p.consumables,
                              [powerup |-> POISONED_PAWN,
                               text |-> "Poisoned Pawn"])]
    ELSE p

\* PowerUpSystem.check_pawn_capture
check_pawn_capture(p, captured_piece, position) ==
    IF InSeq(captured_piece, p.poisoned_pawns)
    THEN [p EXCEPT !.poison_clouds =
                       Append(p.poison_clouds,
                              PoisonCloud(position, DefaultDuration)),
                   !.poisoned_pawns =
                       ListRemove(p.poisoned_pawns, captured_piece)]
    ELSE p

\* PowerUpSystem.create_poison_cloud
create_poison_cloud(p, position, turn_count) ==
    [p EXCEPT !.poison_clouds =
        Append(p.poison_clouds,
               [PoisonCloud(position, DefaultDuration)
                  EXCEPT !.created_on_turn_count = turn_count,
                         !.last_decremented_on_turn_count = turn_count])]

\* lines 303-309: every occupied square of the cloud's area is cleared;
\* killed collects colour and type of the pieces, square by square
RECURSIVE KillArea(_, _, _, _)
KillArea(s, squares, k, killed) ==
    IF k > Len(squares) THEN [s |-> s, killed |-> killed]
    ELSE LET row == squares[k][1]
             col == squares[k][2]
             piece == s.board[row][col]
         IN KillArea(IF piece # None THEN SetCell(s, row, col, None) ELSE s,
                     squares, k + 1,
                     IF piece # None
                     THEN Append(killed, <<s.pieces[piece].color,
                                           s.pieces[piece].piece_type>>)
                     ELSE killed)

\* the loop without line 312 (clouds_to_remove.append(cloud))
RECURSIVE UpdateClouds_NotRemoved(_, _, _, _, _, _)
UpdateClouds_NotRemoved(clouds, s, turn_count, i, clouds_to_remove, killed_pieces) ==
    IF i > Len(clouds)
    THEN [clouds |-> clouds, s |-> s, clouds_to_remove |-> clouds_to_remove,
          killed_pieces |-> killed_pieces]
    ELSE LET cloud == clouds[i]
             due == /\ turn_count - cloud.last_decremented_on_turn_count >= 2
                    /\ s.current_turn = WHITE
             c1 == IF due
                   THEN [cloud EXCEPT
                           !.last_decremented_on_turn_count = turn_count,
                           !.turns_remaining = cloud.turns_remaining - 1]
                   ELSE cloud
             trigger == due /\ c1.turns_remaining <= 0
             k == IF trigger
                  THEN KillArea(s, c1.affected_squares, 1, killed_pieces)
                  ELSE [s |-> s, killed |-> killed_pieces]
         IN UpdateClouds_NotRemoved([clouds EXCEPT ![i] = c1], k.s, turn_count, i + 1,
                         clouds_to_remove,
                         k.killed)

\* the loop of update_poison_clouds over the clouds from cloud i onwards:
\* clouds with their counters updated, the board, the indices marked for
\* removal and the pieces killed so far
RECURSIVE UpdateClouds(_, _, _, _, _, _)
UpdateClouds(clouds, s, turn_count, i, clouds_to_remove, killed_pieces) ==
    IF i > Len(clouds)
    THEN [clouds |-> clouds, s |-> s, clouds_to_remove |-> clouds_to_remove,
          killed_pieces |-> killed_pieces]
    ELSE LET cloud == clouds[i]
             due == /\ turn_count - cloud.last_decremented_on_turn_count >= 2
                    /\ s.current_turn = WHITE
             c1 == IF due
                   THEN [cloud EXCEPT
                           !.last_decremented_on_turn_count = turn_count,
                           !.turns_remaining = cloud.turns_remaining - 1]
                   ELSE cloud
             trigger == due /\ c1.turns_remaining <= 0
             k == IF trigger
                  THEN KillArea(s, c1.affected_squares, 1, killed_pieces)
                  ELSE [s |-> s, killed |-> killed_pieces]
         IN UpdateClouds([clouds EXCEPT ![i] = c1], k.s, turn_count, i + 1,
                         IF trigger THEN clouds_to_remove \cup {i}
                         ELSE clouds_to_remove,
                         k.killed)

\* the clouds whose index is not in `gone`, in order
RECURSIVE KeepClouds(_, _, _)
KeepClouds(clouds, gone, i) ==
    IF i > Len(clouds) THEN <<>>
    ELSE (IF i \in gone THEN <<>> ELSE <<clouds[i]>>)
         \o KeepClouds(clouds, gone, i + 1)

\* PowerUpSystem.update_poison_clouds: the returned list, the PowerUpSystem
\* and the ChessBoard it leaves
update_poison_clouds(p, turn_count, s) ==
    IF p.poison_clouds = <<>> THEN [ret |-> <<>>, p |-> p, s |-> s]
    ELSE LET u == UpdateClouds(p.poison_clouds, s, turn_count, 1, {}, <<>>)
         IN [ret |-> u.killed_pieces,
             p |-> [p EXCEPT !.poison_clouds =
                        KeepClouds(u.clouds, u.clouds_to_remove, 1)],
             s |-> u.s]

VARIABLES board, pieces, selected_piece, valid_moves, current_turn,
          last_move, en_passant_target, powerup_system, total_moves,
          call_stack,
          line, step, free

vars == <<board, pieces, selected_piece, valid_moves, current_turn,
          last_move, en_passant_target, powerup_system, total_moves,
          call_stack,
          line, step, free>>

Self ==
    [board |-> board, pieces |-> pieces, selected_piece |-> selected_piece,
     valid_moves |-> valid_moves, current_turn |-> current_turn,
     last_move |-> last_move, en_passant_target |-> en_passant_target]

Becomes(s) ==
    /\ board' = s.board
    /\ pieces' = s.pieces
    /\ selected_piece' = s.selected_piece
    /\ valid_moves' = s.valid_moves
    /\ current_turn' = s.current_turn
    /\ last_move' = s.last_move
    /\ en_passant_target' = s.en_passant_target

Init ==
    /\ board = NewChessBoard.board
    /\ pieces = NewChessBoard.pieces
    /\ selected_piece = NewChessBoard.selected_piece
    /\ valid_moves = NewChessBoard.valid_moves
    /\ current_turn = NewChessBoard.current_turn
    /\ last_move = NewChessBoard.last_move
    /\ en_passant_target = NewChessBoard.en_passant_target
    /\ powerup_system = NewPowerUpSystem
    /\ total_moves = 0
    /\ call_stack = <<>>
    /\ line \in 1..Len(Lines)
    /\ step = 0
    /\ free = 0

\* the click the environment delivers next
Arrives(mouse_pos) ==
    IF step < Len(Lines[line])
    THEN mouse_pos = Lines[line][step + 1] /\ step' = step + 1 /\ free' = free
    ELSE free < MaxFree /\ step' = step /\ free' = free + 1

HandleClick ==
    \E mouse_pos \in MousePositions :
        /\ Arrives(mouse_pos)
        /\ Becomes(handle_click(Self, mouse_pos))
        /\ line' = line
        /\ powerup_system' = powerup_system
        /\ total_moves' = total_moves
        /\ call_stack' = call_stack

Next == HandleClick

Spec == Init /\ [][Next]_vars

\* ---------------------------------------------------------------------
\* The run loop of src/main.py: White moves by clicks, Black by the
\* external oracle (ChessAI.get_best_move).
\* ---------------------------------------------------------------------

\* the direct write with line 225 (piece.position = target_pos) left out
direct_move_PositionLeft(s, id, target_pos) ==
    LET row == s.pieces[id].position[1]
        col == s.pieces[id].position[2]
        s1 == SetCell(s, row, col, None)
        s2 == [s1 EXCEPT !.pieces[id].has_moved = TRUE]
        s3 == SetCell(s2, target_pos[1], target_pos[2], id)
    IN [s3 EXCEPT !.last_move = <<id, <<row, col>>, target_pos>>,
                  !.current_turn = WHITE,
                  !.selected_piece = None,
                  !.valid_moves = <<>>]

\* the direct write without the hand-over of the turn
direct_move_TurnKept(s, id, target_pos) ==
    LET row == s.pieces[id].position[1]
        col == s.pieces[id].position[2]
        s1 == SetCell(s, row, col, None)
        s2 == [s1 EXCEPT !.pieces[id].position = target_pos,
                         !.pieces[id].has_moved = TRUE]
        s3 == SetCell(s2, target_pos[1], target_pos[2], id)
    IN [s3 EXCEPT !.last_move = <<id, <<row, col>>, target_pos>>,
                  !.selected_piece = None,
                  !.valid_moves = <<>>]

\* main.py lines 213-244, and the same statements for the substitute move
\* at lines 255-272: the move is written into the board directly
direct_move(s, id, target_pos) ==
    LET row == s.pieces[id].position[1]
        col == s.pieces[id].position[2]
        s1 == SetCell(s, row, col, None)
        s2 == [s1 EXCEPT !.pieces[id].position = target_pos,
                         !.pieces[id].has_moved = TRUE]
        s3 == SetCell(s2, target_pos[1], target_pos[2], id)
    IN [s3 EXCEPT !.last_move = <<id, <<row, col>>, target_pos>>,
                  !.current_turn = WHITE,
                  !.selected_piece = None,
                  !.valid_moves = <<>>]

Click(pos) == [kind |-> "click", pos |-> pos]
Suggest(from, to) == [kind |-> "oracle", from |-> from, to |-> to]

MainLines == <<
    \* 1. the oracle captures; White captures; White moves a pawn onto the
    \* en-passant target
    <<
       Click(Centre(6, 2)), Click(Centre(4, 2)), Suggest(<<1, 2>>, <<3, 2>>),
       Click(Centre(6, 3)), Click(Centre(5, 2)), Suggest(<<1, 1>>, <<2, 1>>),
       Click(Centre(7, 3)), Click(Centre(1, 3)), Suggest(<<0, 1>>, <<1, 3>>) >>,
    \* 2. the oracle castles kingside; White moves a pawn onto an en-passant
    \* target left over from its own double push
    <<
       Click(Centre(6, 5)), Click(Centre(5, 5)), Suggest(<<1, 4>>, <<2, 4>>),
       Click(Centre(6, 2)), Click(Centre(4, 2)), Suggest(<<0, 5>>, <<1, 4>>),
       Click(Centre(6, 3)), Click(Centre(5, 2)), Suggest(<<0, 6>>, <<2, 7>>),
       Click(Centre(6, 1)), Click(Centre(4, 1)), Suggest(<<0, 4>>, <<0, 6>>) >>,
    \* 3. White castles kingside
    <<
       Click(Centre(6, 6)), Click(Centre(4, 6)), Suggest(<<1, 5>>, <<3, 5>>),
       Click(Centre(7, 6)), Click(Centre(5, 5)), Suggest(<<1, 4>>, <<3, 4>>),
       Click(Centre(7, 5)), Click(Centre(6, 6)), Suggest(<<0, 3>>, <<2, 5>>),
       Click(Centre(7, 4)), Click(Centre(7, 6)) >>,
    \* 4. the oracle castles queenside
    <<
       Click(Centre(6, 3)), Click(Centre(4, 3)), Suggest(<<1, 3>>, <<3, 3>>),
       Click(Centre(6, 2)), Click(Centre(5, 2)), Suggest(<<0, 2>>, <<4, 6>>),
       Click(Centre(7, 3)), Click(Centre(5, 1)), Suggest(<<0, 1>>, <<2, 0>>),
       Click(Centre(5, 1)), Click(Centre(3, 1)), Suggest(<<0, 3>>, <<1, 3>>),
       Click(Centre(6, 0)), Click(Centre(4, 0)), Suggest(<<1, 6>>, <<2, 6>>),
       Click(Centre(6, 1)), Click(Centre(5, 0)), Suggest(<<0, 4>>, <<0, 2>>) >>,
    \* 5. the oracle captures en passant
    <<
       Click(Centre(6, 6)), Click(Centre(5, 6)), Suggest(<<1, 5>>, <<3, 5>>),
       Click(Centre(6, 7)), Click(Centre(5, 7)), Suggest(<<1, 0>>, <<3, 0>>),
       Click(Centre(6, 2)), Click(Centre(5, 2)), Suggest(<<1, 3>>, <<3, 3>>),
       Click(Centre(5, 6)), Click(Centre(4, 6)), Suggest(<<1, 1>>, <<2, 1>>),
       Click(Centre(7, 1)), Click(Centre(5, 0)), Suggest(<<3, 5>>, <<4, 6>>),
       Click(Centre(6, 5)), Click(Centre(4, 5)), Suggest(<<4, 6>>, <<5, 5>>) >>,
    \* 6. White castles queenside
    <<
       Click(Centre(6, 2)), Click(Centre(4, 2)), Suggest(<<1, 6>>, <<2, 6>>),
       Click(Centre(6, 3)), Click(Centre(5, 2)), Suggest(<<1, 5>>, <<3, 5>>),
       Click(Centre(7, 1)), Click(Centre(5, 0)), Suggest(<<0, 4>>, <<1, 5>>),
       Click(Centre(6, 4)), Click(Centre(5, 4)), Suggest(<<1, 0>>, <<3, 0>>),
       Click(Centre(7, 2)), Click(Centre(6, 3)), Suggest(<<1, 7>>, <<3, 7>>),
       Click(Centre(7, 3)), Click(Centre(5, 5)), Suggest(<<0, 0>>, <<1, 0>>),
       Click(Centre(7, 4)), Click(Centre(7, 2)) >>,
    \* 7. White promotes
    <<
       Click(Centre(7, 6)), Click(Centre(5, 7)), Suggest(<<1, 1>>, <<2, 1>>),
       Click(Centre(6, 5)), Click(Centre(4, 5)), Suggest(<<1, 6>>, <<2, 6>>),
       Click(Centre(6, 6)), Click(Centre(4, 6)), Suggest(<<1, 2>>, <<3, 2>>),
       Click(Centre(4, 5)), Click(Centre(3, 5)), Suggest(<<0, 1>>, <<2, 2>>),
       Click(Centre(5, 7)), Click(Centre(6, 5)), Suggest(<<1, 3>>, <<3, 3>>),
       Click(Centre(6, 0)), Click(Centre(4, 0)), Suggest(<<0, 3>>, <<1, 2>>),
       Click(Centre(3, 5)), Click(Centre(2, 6)), Suggest(<<0, 5>>, <<2, 7>>),
       Click(Centre(2, 6)), Click(Centre(1, 5)), Suggest(<<0, 4>>, <<1, 3>>),
       Click(Centre(1, 5)), Click(Centre(0, 5)) >>,
    \* 8. the oracle moves a pawn to the last rank
    <<
       Click(Centre(6, 3)), Click(Centre(5, 3)), Suggest(<<1, 7>>, <<2, 7>>),
       Click(Centre(6, 4)), Click(Centre(5, 4)), Suggest(<<1, 2>>, <<3, 2>>),
       Click(Centre(7, 4)), Click(Centre(6, 3)), Suggest(<<2, 7>>, <<3, 7>>),
       Click(Centre(7, 1)), Click(Centre(5, 2)), Suggest(<<1, 0>>, <<2, 0>>),
       Click(Centre(5, 2)), Click(Centre(6, 4)), Suggest(<<0, 7>>, <<1, 7>>),
       Click(Centre(6, 0)), Click(Centre(5, 0)), Suggest(<<1, 6>>, <<3, 6>>),
       Click(Centre(6, 2)), Click(Centre(4, 2)), Suggest(<<1, 5>>, <<3, 5>>),
       Click(Centre(6, 1)), Click(Centre(5, 2)), Suggest(<<3, 6>>, <<4, 6>>),
       Click(Centre(6, 5)), Click(Centre(4, 5)), Suggest(<<4, 6>>, <<5, 5>>),
       Click(Centre(7, 0)), Click(Centre(7, 1)), Suggest(<<1, 1>>, <<3, 1>>),
       Click(Centre(6, 4)), Click(Centre(5, 6)), Suggest(<<2, 0>>, <<3, 0>>),
       Click(Centre(7, 6)), Click(Centre(6, 4)), Suggest(<<3, 0>>, <<4, 0>>),
       Click(Centre(5, 6)), Click(Centre(4, 4)), Suggest(<<0, 2>>, <<1, 1>>),
       Click(Centre(7, 1)), Click(Centre(7, 0)), Suggest(<<5, 5>>, <<6, 6>>),
       Click(Centre(7, 0)), Click(Centre(6, 0)), Suggest(<<6, 6>>, <<7, 5>>) >>,
    \* 9. the oracle names a square its knight cannot reach, then a rook
    \* that has no legal move, then a legal move
    <<
       Click(Centre(6, 4)), Click(Centre(4, 4)), Suggest(<<0, 1>>, <<3, 3>>),
       Click(Centre(6, 3)), Click(Centre(4, 3)), Suggest(<<0, 7>>, <<3, 7>>),
       Suggest(<<1, 0>>, <<2, 0>>),
       Click(Centre(7, 6)), Click(Centre(5, 5)) >>,
    \* 10. the oracle asks for castling through an attacked square and for
    \* a pawn capture onto an empty square
    <<
       Click(Centre(6, 4)), Click(Centre(4, 4)), Suggest(<<1, 4>>, <<3, 4>>),
       Click(Centre(7, 5)), Click(Centre(4, 2)), Suggest(<<0, 6>>, <<2, 7>>),
       Click(Centre(6, 3)), Click(Centre(5, 3)), Suggest(<<0, 5>>, <<1, 4>>),
       Click(Centre(4, 2)), Click(Centre(1, 5)), Suggest(<<0, 4>>, <<0, 6>>),
       Click(Centre(6, 0)), Click(Centre(5, 0)), Suggest(<<1, 0>>, <<2, 1>>) >>
  >>

InitMain ==
    /\ board = NewChessBoard.board
    /\ pieces = NewChessBoard.pieces
    /\ selected_piece = NewChessBoard.selected_piece
    /\ valid_moves = NewChessBoard.valid_moves
    /\ current_turn = NewChessBoard.current_turn
    /\ last_move = NewChessBoard.last_move
    /\ en_passant_target = NewChessBoard.en_passant_target
    /\ powerup_system = NewPowerUpSystem
    /\ total_moves = 0
    /\ call_stack = <<>>
    /\ line \in 1..Len(MainLines)
    /\ step = 0
    /\ free = 0

\* the event the environment delivers next
ArrivesMain(ev) ==
    IF step < Len(MainLines[line])
    THEN ev = MainLines[line][step + 1] /\ step' = step + 1 /\ free' = free
    ELSE free < MaxFree /\ step' = step /\ free' = free + 1

\* ChessBoard.remove_random_piece, called on main.py line 175, is not in
\* src/board.py: it is taken to empty one occupied square, any of them, or
\* to do nothing on an empty board.  The result is the set of boards it
\* can leave.
remove_random_piece(s) ==
    IF OnBoard(s) = {} THEN {s}
    ELSE {SetCell(s, q[1], q[2], None) :
              q \in {x \in Rows \X Rows : s.board[x[1]][x[2]] # None}}

\* main.py lines 169-177: the click goes to the powerup chooser; a chosen
\* one-time removal is applied at once
ChooserBranch(board_click) ==
    \E h \in {powerup_handle_click(powerup_system, board_click)} :
        IF h.ret /\ h.p.selected_powerup = RANDOM_PIECE_REMOVAL
        THEN /\ \E t \in remove_random_piece(Self) : Becomes(t)
             /\ powerup_system' = [h.p EXCEPT !.selected_powerup = NoneT]
        ELSE /\ Becomes(Self)
             /\ powerup_system' = h.p

\* main.py lines 164-189: what a left click at board_click does
BoardAreaClick(board_click) ==
    IF board_click[1] <= WIDTH
    THEN IF powerup_system.show_powerup_selection
         THEN ChooserBranch(board_click) /\ total_moves' = total_moves
         ELSE IF current_turn = WHITE
         THEN /\ Becomes(handle_click(Self, board_click))
              /\ total_moves' = IF current_turn' # current_turn
                                THEN total_moves + 1 ELSE total_moves
              /\ powerup_system' = powerup_system
         ELSE /\ Becomes(Self)
              /\ UNCHANGED <<total_moves, powerup_system>>
    ELSE /\ Becomes(Self)
         /\ UNCHANGED <<total_moves, powerup_system>>

\* main.py lines 164-189: the player clicks while it is White's turn
PlayerClick ==
    \E mouse_pos \in MousePositions :
        /\ ArrivesMain(Click(mouse_pos))
        /\ current_turn = WHITE
        /\ BoardAreaClick(mouse_pos)
        /\ call_stack' = call_stack
        /\ line' = line

\* the branch handing the turn to White also when the named piece has no
\* legal move
oracle_branch_TurnPassed(s, piece, target_pos) ==
    LET g == get_valid_moves(s, piece)
    IN IF InSeq(target_pos, g.legal_moves)
       THEN {direct_move(g.s, piece, target_pos)}
       ELSE IF g.legal_moves # <<>>
       THEN {direct_move(g.s, piece, g.legal_moves[k]) :
                k \in 1..Len(g.legal_moves)}
       ELSE {[g.s EXCEPT !.current_turn = WHITE]}

\* the oracle's answer written into the board without looking it up in
\* the piece's legal moves
oracle_branch_Unchecked(s, piece, target_pos) ==
    {direct_move(get_valid_moves(s, piece).s, piece, target_pos)}

\* main.py lines 206-272: what the run loop does with the oracle's answer
\* (piece, target_pos), as the set of object states it can leave.  The
\* suggestion is applied if get_valid_moves lists it; otherwise
\* random.choice picks one of the piece's legal moves, and with no legal
\* move nothing is written.
oracle_branch(s, piece, target_pos) ==
    LET g == get_valid_moves(s, piece)
    IN IF InSeq(target_pos, g.legal_moves)
       THEN {direct_move(g.s, piece, target_pos)}
       ELSE IF g.legal_moves # <<>>
       THEN {direct_move(g.s, piece, g.legal_moves[k]) :
                k \in 1..Len(g.legal_moves)}
       ELSE {g.s}

\* main.py lines 191-274.  get_best_move hands the position to the engine
\* with the side to move (chess_ai.py line 165) and returns the piece on the
\* origin square of the engine's move together with its destination; the
\* destination is not assumed to be legal for the board's own rules.
AIMove ==
    /\ current_turn = BLACK
    /\ \E from \in Rows \X Rows :
         /\ board[from[1]][from[2]] # None
         /\ pieces[board[from[1]][from[2]]].color = current_turn
         /\ \E target_pos \in Rows \X Rows :
                /\ ArrivesMain(Suggest(from, target_pos))
                /\ \E out \in oracle_branch(Self, board[from[1]][from[2]],
                                            target_pos) :
                       Becomes(out)
    /\ total_moves' = IF current_turn' # current_turn
                      THEN total_moves + 1 ELSE total_moves
    /\ call_stack' = call_stack
    /\ line' = line
    \* lines 236-237: the counter is incremented if it is White's turn,
    \* tested before the turn is handed over (line 240)
    /\ IF current_turn = WHITE
       THEN \E sample \in PowerupSamples :
                powerup_system' = increment_move_counter(powerup_system, sample)
       ELSE powerup_system' = powerup_system

NextMain == PlayerClick \/ AIMove

SpecMain == InitMain /\ [][NextMain]_vars

\* ---------------------------------------------------------------------
\* A ChessBoard and a PowerUpSystem side by side, driven through their
\* methods: clicks on the board, increment_move_counter and clicks on the
\* powerup chooser, in any interleaving.
\* ---------------------------------------------------------------------

\* calls of increment_move_counter considered
MaxCount == 5

\* 1.Nf3 e5 2.Nd4 a6 3.e4, then the knight on (4,3) and the pawn on (4,4)
\* are selected in turn
PowerupLines == <<
    Mv(7, 6, 5, 5) \o Mv(1, 4, 3, 4) \o Mv(5, 5, 4, 3) \o Mv(1, 0, 2, 0)
    \o Mv(6, 4, 4, 4) \o Mv(1, 7, 2, 7)
    \o <<Centre(4, 3), Centre(4, 4)>>
  >>

\* where the chooser is clicked: inside the first button, inside the
\* second, between the two and outside both
ChooserPositions == {<<200, 320>>, <<440, 320>>, <<320, 320>>, <<40, 40>>}

InitPowerups ==
    /\ board = NewChessBoard.board
    /\ pieces = NewChessBoard.pieces
    /\ selected_piece = NewChessBoard.selected_piece
    /\ valid_moves = NewChessBoard.valid_moves
    /\ current_turn = NewChessBoard.current_turn
    /\ last_move = NewChessBoard.last_move
    /\ en_passant_target = NewChessBoard.en_passant_target
    /\ powerup_system = NewPowerUpSystem
    /\ total_moves = 0
    /\ call_stack = <<>>
    /\ line \in 1..Len(PowerupLines)
    /\ step = 0
    /\ free = 0

BoardClick ==
    /\ step < Len(PowerupLines[line])
    /\ Becomes(handle_click(Self, PowerupLines[line][step + 1]))
    /\ step' = step + 1
    /\ UNCHANGED <<powerup_system, total_moves, call_stack, line, free>>

IncrementMoveCounter ==
    /\ powerup_system.white_moves_count < MaxCount
    /\ \E sample \in PowerupSamples :
           powerup_system' = increment_move_counter(powerup_system, sample)
    /\ UNCHANGED <<board, pieces, selected_piece, valid_moves, current_turn,
                   last_move, en_passant_target, total_moves, call_stack, line, step,
                   free>>

ChooserClick ==
    /\ \E pos \in ChooserPositions :
           powerup_system' = powerup_handle_click(powerup_system, pos).p
    /\ UNCHANGED <<board, pieces, selected_piece, valid_moves, current_turn,
                   last_move, en_passant_target, total_moves, call_stack, line, step,
                   free>>

NextPowerups == BoardClick \/ IncrementMoveCounter \/ ChooserClick

SpecPowerups == InitPowerups /\ [][NextPowerups]_vars

\* ---------------------------------------------------------------------
\* The run loop with the powerup chooser.  increment_move_counter is
\* called on the PowerUpSystem at any moment between two events, reset_game
\* may be asked for at any moment, and while the chooser is up the player
\* also clicks at the chooser's positions.
\* ---------------------------------------------------------------------

\* a scripted click arrives, whoever is to move and whatever is shown
ScriptedClick ==
    \E mouse_pos \in MousePositions :
        /\ ArrivesMain(Click(mouse_pos))
        /\ BoardAreaClick(mouse_pos)
        /\ call_stack' = call_stack
        /\ line' = line

\* the player clicks at the chooser while it is shown
ChooserAreaClick ==
    /\ powerup_system.show_powerup_selection
    /\ \E pos \in ChooserPositions : BoardAreaClick(pos)
    /\ UNCHANGED <<call_stack, line, step, free>>

\* the oracle branch entered although the chooser is shown
OracleMove_WhileChoosing == AIMove

\* main.py lines 192-195: the oracle branch is entered only while the
\* chooser is not shown
OracleMove ==
    /\ ~powerup_system.show_powerup_selection
    /\ AIMove

\* main.py lines 85-90: reset_game replaces the ChessBoard, and with it
\* the PowerUpSystem main.py reaches through it; the script starts over
ResetGame ==
    /\ Becomes(NewChessBoard)
    /\ powerup_system' = NewPowerUpSystem
    /\ total_moves' = 0
    /\ step' = 0
    /\ free' = 0
    /\ UNCHANGED <<call_stack, line>>

NextChooser ==
    \/ ScriptedClick
    \/ ChooserAreaClick
    \/ OracleMove
    \/ IncrementMoveCounter
    \/ ResetGame

\* the scripted games of MainLines played with the chooser
ChooserGames == {1}

InitChooser == InitMain /\ line \in ChooserGames

SpecChooser == InitChooser /\ [][NextChooser]_vars

\* ---------------------------------------------------------------------
\* A ChessBoard and a PowerUpSystem with poisoned pawns and poison clouds.
\* Moves are made by clicks; the driver counts the executed moves as
\* main.py counts total_moves and calls update_poison_clouds once after
\* every executed move with that count (the call is the one the
\* specification describes; no file of the program makes it).  Pawns are poisoned, captures are
\* reported and clouds are created through the methods of PowerUpSystem,
\* at any moment between two clicks.
\* ---------------------------------------------------------------------

\* poison clouds alive at a time
MaxClouds == 1

\* pawns poisoned at a time
MaxPoisoned == 1

\* 1.e4 d5 2.exd5 Qxd5 3.Nc3 Qa5 4.Nf3 Nf6 5.d4 c6
PoisonLines == <<
    Mv(6, 4, 4, 4) \o Mv(1, 3, 3, 3) \o Mv(4, 4, 3, 3) \o Mv(0, 3, 3, 3)
    \o Mv(7, 1, 5, 2) \o Mv(3, 3, 3, 0) \o Mv(7, 6, 5, 5) \o Mv(0, 6, 2, 5)
    \o Mv(6, 3, 4, 3) \o Mv(1, 2, 2, 2)
  >>

\* where clouds are created through create_poison_cloud
CloudCentres == {<<3, 3>>, <<6, 7>>}

\* the pawns that may be poisoned: the pawns starting on (1, 3) and (6, 4)
PoisonCandidates == {7, 10}

InitPoison ==
    /\ board = NewChessBoard.board
    /\ pieces = NewChessBoard.pieces
    /\ selected_piece = NewChessBoard.selected_piece
    /\ valid_moves = NewChessBoard.valid_moves
    /\ current_turn = NewChessBoard.current_turn
    /\ last_move = NewChessBoard.last_move
    /\ en_passant_target = NewChessBoard.en_passant_target
    /\ powerup_system = NewPowerUpSystem
    /\ total_moves = 0
    /\ call_stack = <<>>
    /\ line \in 1..Len(PoisonLines)
    /\ step = 0
    /\ free = 0

\* what follows handle_click: if the click executed a move (the turn has
\* passed on) the count goes up by one and update_poison_clouds is called
\* with it.  t is the board after the click.
UpdateAfterMove(t, p, old_turn, count) ==
    IF t.current_turn # old_turn
    THEN [u |-> update_poison_clouds(p, count + 1, t),
          total_moves |-> count + 1]
    ELSE [u |-> [ret |-> <<>>, p |-> p, s |-> t], total_moves |-> count]

ClickAndUpdate(s, p, count, mouse_pos) ==
    UpdateAfterMove(handle_click(s, mouse_pos), p, s.current_turn, count)

PoisonClick ==
    /\ step < Len(PoisonLines[line])
    /\ \E out \in {ClickAndUpdate(Self, powerup_system, total_moves,
                                   PoisonLines[line][step + 1])} :
           /\ Becomes(out.u.s)
           /\ powerup_system' = out.u.p
           /\ total_moves' = out.total_moves
           /\ call_stack' = call_stack
    /\ step' = step + 1
    /\ UNCHANGED <<line, free>>

SelectPawnForPoison ==
    /\ Len(powerup_system.poisoned_pawns) < MaxPoisoned
    /\ \E pawn \in PoisonCandidates \cap OnBoard(Self) :
           /\ ~InSeq(pawn, powerup_system.poisoned_pawns)
           /\ powerup_system' = select_pawn_for_poison(powerup_system, pawn)
    /\ UNCHANGED <<board, pieces, selected_piece, valid_moves, current_turn,
                   last_move, en_passant_target, total_moves, call_stack, line, step,
                   free>>

\* check_pawn_capture called with a piece that has left the grid and the
\* square it was taken on
CheckPawnCapture ==
    /\ Len(powerup_system.poison_clouds) < MaxClouds
    /\ \E captured_piece \in (1..Len(pieces)) \ OnBoard(Self) :
           powerup_system' =
               check_pawn_capture(powerup_system, captured_piece,
                                  pieces[captured_piece].position)
    /\ UNCHANGED <<board, pieces, selected_piece, valid_moves, current_turn,
                   last_move, en_passant_target, total_moves, call_stack, line, step,
                   free>>

CreatePoisonCloud ==
    /\ Len(powerup_system.poison_clouds) < MaxClouds
    /\ \E position \in CloudCentres :
           powerup_system' =
               create_poison_cloud(powerup_system, position, total_moves)
    /\ UNCHANGED <<board, pieces, selected_piece, valid_moves, current_turn,
                   last_move, en_passant_target, total_moves, call_stack, line, step,
                   free>>

NextPoison ==
    PoisonClick \/ SelectPawnForPoison \/ CheckPawnCapture \/ CreatePoisonCloud

SpecPoison == InitPoison /\ [][NextPoison]_vars

\* ---------------------------------------------------------------------
\* A PowerUpSystem driven through the methods that obtain and use its
\* consumables: increment_move_counter and clicks on the chooser obtain
\* them, draw_consumables lays out their buttons, handle_consumable_click
\* starts the use of one, cancel_pawn_selection and select_pawn_for_poison
\* end it.  No file of the program calls the last four; they are called
\* here in any interleaving.
\* ---------------------------------------------------------------------

\* how many times the chooser comes up
MaxChoosers == 2

\* the sidebar_start_x and sidebar_width draw_consumables is called with:
\* a column to the right of the board
SidebarGeometry == <<WIDTH + 10, 180>>

\* where the sidebar is clicked: inside the first button, inside the
\* second, and above both
ConsumablePositions ==
    {<<WIDTH + 20, 340>>, <<WIDTH + 20, 375>>, <<WIDTH + 20, 10>>}

InitConsumables == InitPowerups /\ line = 1

GainMove ==
    /\ powerup_system.white_moves_count \div 5 < MaxChoosers
    /\ \E sample \in PowerupSamples :
           powerup_system' = increment_move_counter(powerup_system, sample)
    /\ UNCHANGED <<board, pieces, selected_piece, valid_moves, current_turn,
                   last_move, en_passant_target, total_moves, call_stack,
                   line, step, free>>

DrawConsumables ==
    /\ powerup_system' = draw_consumables(powerup_system, SidebarGeometry[1],
                                          SidebarGeometry[2])
    /\ UNCHANGED <<board, pieces, selected_piece, valid_moves, current_turn,
                   last_move, en_passant_target, total_moves, call_stack,
                   line, step, free>>

HandleConsumableClick ==
    /\ \E pos \in ConsumablePositions :
           \E h \in {handle_consumable_click(powerup_system, pos)} :
               /\ ~h.raised
               /\ powerup_system' = h.p
    /\ UNCHANGED <<board, pieces, selected_piece, valid_moves, current_turn,
                   last_move, en_passant_target, total_moves, call_stack,
                   line, step, free>>

CancelPawnSelection ==
    /\ powerup_system' = cancel_pawn_selection(powerup_system)
    /\ UNCHANGED <<board, pieces, selected_piece, valid_moves, current_turn,
                   last_move, en_passant_target, total_moves, call_stack,
                   line, step, free>>

NextConsumables ==
    \/ GainMove
    \/ ChooserClick
    \/ DrawConsumables
    \/ HandleConsumableClick
    \/ CancelPawnSelection
    \/ SelectPawnForPoison

SpecConsumables == InitConsumables /\ [][NextConsumables]_vars

\* ---------------------------------------------------------------------
\* The calls get_valid_moves makes, directly and through its callees.
\* call_stack is the interpreter's stack of ChessBoard method frames:
\*   fn          the method
\*   piece_type  the type of its piece argument, NoPiece if it takes none
\*   pc          the call site of the method's body the frame stands at
\*   n           the calls made from that site so far (a site in a loop
\*               calls once per iteration)
\* Which branch a method takes depends on the board; every branch is
\* allowed here, so the stacks are those of every board.
\* ---------------------------------------------------------------------

\* calls one call site makes at most (iterations of the loop it is in)
MaxCallsPerSite == 1

\* the piece_type of a frame whose method has no piece parameter
NoPiece == "NONE"

PieceTypes == {PAWN, KNIGHT, BISHOP, ROOK, QUEEN, KING}

Callee(fn, piece_type) == [fn |-> fn, piece_type |-> piece_type]

\* the generator get_valid_moves and get_moves_without_check_validation
\* dispatch to for a piece that is not a king
GeneratorOf(piece_type) ==
    CASE piece_type = PAWN -> "get_pawn_moves"
      [] piece_type = KNIGHT -> "get_knight_moves"
      [] piece_type = BISHOP -> "get_bishop_moves"
      [] piece_type = ROOK -> "get_rook_moves"
      [] piece_type = QUEEN -> "get_queen_moves"

\* is_square_under_attack with the king tested by its move pattern as the
\* other pieces are, and the pattern taken from get_king_moves
CallSites_KingByMovePattern(fn, piece_type) ==
    CASE fn = "get_valid_moves" ->
             << {Callee(IF piece_type = KING THEN "get_king_moves"
                        ELSE GeneratorOf(piece_type), piece_type)},
                {Callee("would_move_cause_check", piece_type)} >>
      [] fn \in {"get_pawn_moves", "get_knight_moves", "get_bishop_moves",
                 "get_rook_moves"} ->
             << {Callee("is_valid_position", NoPiece)} >>
      [] fn = "get_queen_moves" ->
             << {Callee("get_rook_moves", piece_type)},
                {Callee("get_bishop_moves", piece_type)} >>
      [] fn = "get_king_moves" ->
             << {Callee("is_valid_position", NoPiece)},
                {Callee("is_king_in_check", NoPiece)},
                {Callee("can_castle_kingside", NoPiece)},
                {Callee("can_castle_queenside", NoPiece)} >>
      [] fn \in {"can_castle_kingside", "can_castle_queenside"} ->
             << {Callee("is_square_under_attack", NoPiece)} >>
      [] fn = "is_square_under_attack" ->
             << {Callee("get_moves_without_check_validation", t) :
                     t \in PieceTypes \ {PAWN}} >>
      [] fn = "get_moves_without_check_validation" ->
             << {Callee(IF piece_type = KING THEN "get_king_moves"
                        ELSE GeneratorOf(piece_type), piece_type)} >>
      [] fn = "is_king_in_check" ->
             << {Callee("is_square_under_attack", NoPiece)} >>
      [] fn = "would_move_cause_check" ->
             << {Callee("is_king_in_check", NoPiece)} >>
      [] fn = "is_valid_position" -> << >>

\* the call sites of a method's body in the order of the source, each
\* with the callees it may invoke
CallSites(fn, piece_type) ==
    CASE fn = "get_valid_moves" ->
             << {Callee(IF piece_type = KING THEN "get_king_moves"
                        ELSE GeneratorOf(piece_type), piece_type)},
                {Callee("would_move_cause_check", piece_type)} >>
      [] fn \in {"get_pawn_moves", "get_knight_moves", "get_bishop_moves",
                 "get_rook_moves"} ->
             << {Callee("is_valid_position", NoPiece)} >>
      [] fn = "get_queen_moves" ->
             << {Callee("get_rook_moves", piece_type)},
                {Callee("get_bishop_moves", piece_type)} >>
      [] fn = "get_king_moves" ->
             << {Callee("is_valid_position", NoPiece)},
                {Callee("is_king_in_check", NoPiece)},
                {Callee("can_castle_kingside", NoPiece)},
                {Callee("can_castle_queenside", NoPiece)} >>
      [] fn \in {"can_castle_kingside", "can_castle_queenside"} ->
             << {Callee("is_square_under_attack", NoPiece)} >>
      [] fn = "is_square_under_attack" ->
             << {Callee("get_moves_without_check_validation", t) :
                     t \in PieceTypes \ {PAWN, KING}} >>
      [] fn = "get_moves_without_check_validation" ->
             << {Callee(IF piece_type = KING THEN "is_valid_position"
                        ELSE GeneratorOf(piece_type),
                        IF piece_type = KING THEN NoPiece ELSE piece_type)} >>
      [] fn = "is_king_in_check" ->
             << {Callee("is_square_under_attack", NoPiece)} >>
      [] fn = "would_move_cause_check" ->
             << {Callee("is_king_in_check", NoPiece)} >>
      [] fn = "is_valid_position" -> << >>

Frame(callee) ==
    [fn |-> callee.fn, piece_type |-> callee.piece_type, pc |-> 1, n |-> 0]

Top == call_stack[Len(call_stack)]

SitesOf(frame) == CallSites(frame.fn, frame.piece_type)

\* the stack with its top frame replaced
WithTop(frame) == [call_stack EXCEPT ![Len(call_stack)] = frame]

InitCalls ==
    /\ board = NewChessBoard.board
    /\ pieces = NewChessBoard.pieces
    /\ selected_piece = NewChessBoard.selected_piece
    /\ valid_moves = NewChessBoard.valid_moves
    /\ current_turn = NewChessBoard.current_turn
    /\ last_move = NewChessBoard.last_move
    /\ en_passant_target = NewChessBoard.en_passant_target
    /\ powerup_system = NewPowerUpSystem
    /\ total_moves = 0
    /\ call_stack = <<>>
    /\ line = 1
    /\ step = 0
    /\ free = 0

\* handle_click calls get_valid_moves with the clicked piece
CallGetValidMoves ==
    /\ call_stack = <<>>
    /\ \E id \in OnBoard(Self) :
           call_stack' = <<Frame(Callee("get_valid_moves", pieces[id].piece_type))>>
    /\ UNCHANGED <<board, pieces, selected_piece, valid_moves, current_turn,
                   last_move, en_passant_target, powerup_system, total_moves,
                   line, step, free>>

\* the method on top makes a call from the site it stands at
Call ==
    /\ call_stack # <<>>
    /\ Top.pc <= Len(SitesOf(Top))
    /\ Top.n < MaxCallsPerSite
    /\ \E callee \in SitesOf(Top)[Top.pc] :
           call_stack' = Append(WithTop([Top EXCEPT !.n = @ + 1]), Frame(callee))
    /\ UNCHANGED <<board, pieces, selected_piece, valid_moves, current_turn,
                   last_move, en_passant_target, powerup_system, total_moves,
                   line, step, free>>

\* the method on top leaves the site it stands at: the condition of the
\* call is false, or its loop is over
NextSite ==
    /\ call_stack # <<>>
    /\ Top.pc <= Len(SitesOf(Top))
    /\ call_stack' = WithTop([Top EXCEPT !.pc = @ + 1, !.n = 0])
    /\ UNCHANGED <<board, pieces, selected_piece, valid_moves, current_turn,
                   last_move, en_passant_target, powerup_system, total_moves,
                   line, step, free>>

\* the method on top has passed its last call site and returns
Return ==
    /\ call_stack # <<>>
    /\ Top.pc > Len(SitesOf(Top))
    /\ call_stack' = SubSeq(call_stack, 1, Len(call_stack) - 1)
    /\ UNCHANGED <<board, pieces, selected_piece, valid_moves, current_turn,
                   last_move, en_passant_target, powerup_system, total_moves,
                   line, step, free>>

NextCalls == CallGetValidMoves \/ Call \/ NextSite \/ Return

\* the interpreter goes on executing the method on top of the stack
SpecCalls ==
    InitCalls /\ [][NextCalls]_vars /\ WF_vars(Call \/ NextSite \/ Return)

\* ---------------------------------------------------------------------
\* Properties
\* ---------------------------------------------------------------------

Squares == Rows \X Rows

PieceAt(q) == board[q[1]][q[2]]

\* this step executed a move (move_piece and the oracle branch both record it)
MoveExecuted == last_move' # last_move

\* the state handle_click produces when piece id is clicked and then square d
Executed(s, id, d) ==
    handle_click(handle_click(s, Centre(s.pieces[id].position[1],
                                        s.pieces[id].position[2])),
                 Centre(d[1], d[2]))

\* C1: no move that get_valid_moves returned and move_piece executed leaves
\* the mover's own king attacked.
C1_NoSelfCheck ==
    [][MoveExecuted => ~is_king_in_check(Self', current_turn)]_vars

\* C2: would_move_cause_check leaves the board object and every Piece
\* exactly as it found them, for every pseudo-legal candidate of every piece
\* on the board, and so does get_valid_moves.
C2_RoundTrip ==
    \A id \in OnBoard(Self) :
        LET moves == PseudoLegalMoves(Self, id)
        IN /\ \A k \in 1..Len(moves) :
                 would_move_cause_check(Self, id, moves[k]).s = Self
           /\ FilterLegal(Self, id, moves, 1).s = Self

\* a castling candidate has gone through the legality simulation
C2_Witness ==
    /\ selected_piece # None
    /\ pieces[selected_piece].piece_type = KING
    /\ \E k \in 1..Len(valid_moves) :
          Abs(valid_moves[k][2] - pieces[selected_piece].position[2]) = 2

\* C3: a call of move_piece whose piece is None, or whose target is not a
\* legal destination of the piece it is given, returns False and changes
\* nothing.
C3_RejectsIllegal ==
    \A id \in OnBoard(Self) \cup {None} :
        LET legal == IF id = None THEN <<>>
                     ELSE get_valid_moves(Self, id).legal_moves
        IN \A target_pos \in Squares :
               ~InSeq(target_pos, legal) =>
                   move_piece(Self, id, target_pos) =
                       [ret |-> FALSE, raised |-> FALSE, s |-> Self]

\* this step changed the occupancy of the board
MoveApplied == board' # board

LastWasDoublePush ==
    /\ last_move # NoneT
    /\ pieces[last_move[1]].piece_type = PAWN
    /\ Abs(last_move[2][1] - last_move[3][1]) = 2

\* the pawn moves of piece id that change file onto an empty square
DiagonalOntoEmpty(s, id) ==
    LET moves == get_pawn_moves(s, id)
    IN {moves[k] : k \in {j \in 1..Len(moves) :
                            /\ moves[j][2] # s.pieces[id].position[2]
                            /\ s.board[moves[j][1]][moves[j][2]] = None}}

\* C5: after any sequence of moves executed through move_piece,
\* en_passant_target is set exactly when the last executed move was a
\* two-square pawn advance, and is then the square that pawn skipped; an
\* en-passant capture is generated only onto that square, hence only on the
\* ply right after the double push.
C5_EnPassantTarget ==
    /\ en_passant_target # NoneT <=> LastWasDoublePush
    /\ LastWasDoublePush =>
           en_passant_target =
               <<(last_move[2][1] + last_move[3][1]) \div 2, last_move[2][2]>>
    /\ \A id \in OnBoard(Self) :
           pieces[id].piece_type = PAWN =>
               \A d \in DiagonalOntoEmpty(Self, id) :
                   /\ LastWasDoublePush
                   /\ d = en_passant_target

\* a pawn of the side to move is offered the en-passant capture
C5_Witness ==
    /\ LastWasDoublePush
    /\ \E id \in OnBoard(Self) :
           /\ pieces[id].piece_type = PAWN
           /\ pieces[id].color = current_turn
           /\ en_passant_target \in DiagonalOntoEmpty(Self, id)
           /\ InSeq(en_passant_target, get_valid_moves(Self, id).legal_moves)

\* move_piece executed a move in this step: in the run loop the moves of
\* White are the ones that go through handle_click and move_piece
MovePieceExecuted == current_turn = WHITE /\ last_move' # last_move

\* C6: when move_piece executes a pawn move that changes file onto an empty
\* square, exactly one piece leaves the board: the enemy pawn on the mover's
\* origin rank and destination file, which advanced two squares on the
\* preceding ply.
C6_EnPassantRemoval ==
    [][(/\ MovePieceExecuted
        /\ pieces[last_move'[1]].piece_type = PAWN
        /\ last_move'[2][2] # last_move'[3][2]
        /\ PieceAt(last_move'[3]) = None)
       => LET victim == board[last_move'[2][1]][last_move'[3][2]]
          IN /\ victim # None
             /\ OnBoard(Self) \ OnBoard(Self') = {victim}
             /\ pieces[victim].piece_type = PAWN
             /\ pieces[victim].color # pieces[last_move'[1]].color
             /\ LastWasDoublePush
             /\ last_move[1] = victim]_vars

\* the has_moved flags of all pieces of object state s
HasMovedFlags(s) == [i \in DOMAIN s.pieces |-> s.pieces[i].has_moved]

\* no legal-move query changes a has_moved flag: neither a single
\* would_move_cause_check nor a whole get_valid_moves, for any piece
QueriesKeepHasMoved ==
    \A id \in OnBoard(Self) :
        LET moves == PseudoLegalMoves(Self, id)
        IN /\ \A k \in 1..Len(moves) :
                  HasMovedFlags(would_move_cause_check(Self, id, moves[k]).s)
                      = HasMovedFlags(Self)
           /\ HasMovedFlags(FilterLegal(Self, id, moves, 1).s)
                  = HasMovedFlags(Self)

\* C7: has_moved only ever changes from False to True, and only for a piece
\* that an executed move has put on another square; the legality simulation
\* hands every flag back as it found it.
C7_HasMovedMonotonic ==
    /\ []QueriesKeepHasMoved
    /\ [][\A id \in DOMAIN pieces :
              /\ pieces[id].has_moved => pieces'[id].has_moved
              /\ pieces'[id].has_moved # pieces[id].has_moved =>
                     /\ MoveExecuted
                     /\ pieces'[id].position # pieces[id].position]_vars

\* moves have been executed, and an unmoved piece has just been through the
\* legality simulation of its candidates and is still unmoved
C7_Witness ==
    /\ last_move # NoneT
    /\ selected_piece # None
    /\ valid_moves # <<>>
    /\ ~pieces[selected_piece].has_moved

\* the king of colour `color` standing on the board, as a set
KingsOf(s, color) ==
    {k \in OnBoard(s) : /\ s.pieces[k].piece_type = KING
                        /\ s.pieces[k].color = color}

\* get_king_moves offers king k a move of two files to column dest_col
CastlingGenerated(s, k, dest_col) ==
    /\ Abs(dest_col - s.pieces[k].position[2]) = 2
    /\ InSeq(<<s.pieces[k].position[1], dest_col>>, get_king_moves(s, k))

\* piece id has been moved before this step or is moved by it
MovedByNow(id) ==
    pieces[id].has_moved \/ pieces'[id].position # pieces[id].position

\* C8: once a king has been moved by an executed move, no castling
\* destination is generated for it in any later state, wherever it stands;
\* once a rook has been moved, castling on its side is not generated again.
C8_NoCastlingAfterMove ==
    [][\A id \in DOMAIN pieces :
          MovedByNow(id) =>
              /\ pieces'[id].has_moved
              /\ pieces[id].piece_type = KING /\ id \in OnBoard(Self') =>
                     /\ ~CastlingGenerated(Self', id, 6)
                     /\ ~CastlingGenerated(Self', id, 2)
              /\ pieces[id].piece_type = ROOK =>
                     \A k \in KingsOf(Self', pieces[id].color) :
                         /\ InitialPieces[id].position[2] = 7 =>
                                ~CastlingGenerated(Self', k, 6)
                         /\ InitialPieces[id].position[2] = 0 =>
                                ~CastlingGenerated(Self', k, 2)]_vars

\* a king that has moved stands on its original square again, and only its
\* has_moved flag keeps kingside castling from being generated
C8_Witness ==
    \E k \in OnBoard(Self) :
        /\ pieces[k].piece_type = KING
        /\ pieces[k].has_moved
        /\ pieces[k].position = <<HomeRow(pieces[k].color), 4>>
        /\ LET unmoved == [Self EXCEPT !.pieces[k].has_moved = FALSE]
           IN CastlingGenerated(unmoved, k, 6)

\* every square strictly between p and q, which share a rank, a file or a
\* diagonal, is empty
ClearBetween(s, p, q) ==
    LET dr == q[1] - p[1]
        dc == q[2] - p[2]
        n == IF Abs(dr) > Abs(dc) THEN Abs(dr) ELSE Abs(dc)
    IN \A i \in 1..(n - 1) :
           s.board[p[1] + i * (dr \div n)][p[2] + i * (dc \div n)] = None

\* the piece standing on p attacks square q by the rules of chess
Attacks(s, p, q) ==
    LET piece == s.pieces[s.board[p[1]][p[2]]]
        dr == q[1] - p[1]
        dc == q[2] - p[2]
        straight == (dr = 0) # (dc = 0)
        diagonal == Abs(dr) = Abs(dc) /\ dr # 0
    IN CASE piece.piece_type = PAWN ->
              /\ dr = (IF piece.color = WHITE THEN -1 ELSE 1)
              /\ Abs(dc) = 1
         [] piece.piece_type = KNIGHT -> {Abs(dr), Abs(dc)} = {1, 2}
         [] piece.piece_type = KING ->
              Abs(dr) <= 1 /\ Abs(dc) <= 1 /\ p # q
         [] piece.piece_type = BISHOP -> diagonal /\ ClearBetween(s, p, q)
         [] piece.piece_type = ROOK -> straight /\ ClearBetween(s, p, q)
         [] piece.piece_type = QUEEN ->
              (straight \/ diagonal) /\ ClearBetween(s, p, q)

\* some piece of colour `by` attacks square q
AttackedBy(s, q, by) ==
    \E p \in Squares :
        /\ s.board[p[1]][p[2]] # None
        /\ s.pieces[s.board[p[1]][p[2]]].color = by
        /\ Attacks(s, p, q)

\* get_king_moves offers king k the destination d, which is not one of the
\* squares next to the king
OfferedBeyondReach(s, k, d) ==
    /\ InSeq(d, get_king_moves(s, k))
    /\ \/ Abs(d[1] - s.pieces[k].position[1]) > 1
       \/ Abs(d[2] - s.pieces[k].position[2]) > 1

\* the conditions of castling for king k towards the corner rook_col, the
\* squares in `between` lying between king and rook and those in `path`
\* being the king's origin, transit and destination
CastlingConditions(s, k, rook_col, between, path) ==
    LET color == s.pieces[k].color
        r == HomeRow(color)
        rook == s.board[r][rook_col]
    IN /\ s.pieces[k].position = <<r, 4>>
       /\ ~s.pieces[k].has_moved
       /\ rook # None
       /\ s.pieces[rook].piece_type = ROOK
       /\ s.pieces[rook].color = color
       /\ ~s.pieces[rook].has_moved
       /\ \A c \in between : s.board[r][c] = None
       /\ \A c \in path : ~AttackedBy(s, <<r, c>>, Other(color))

\* C9: get_king_moves generates the kingside castling destination (r,6) iff
\* king on (r,4) and rook on (r,7) are both unmoved, (r,5) and (r,6) are
\* empty and none of (r,4), (r,5), (r,6) is attacked by the other colour;
\* the queenside destination (r,2) iff the same holds with the rook on
\* (r,0), (r,1), (r,2), (r,3) empty and (r,4), (r,3), (r,2) unattacked.
C9_CastlingIff ==
    \A k \in OnBoard(Self) :
        pieces[k].piece_type = KING =>
            LET r == HomeRow(pieces[k].color)
            IN /\ OfferedBeyondReach(Self, k, <<r, 6>>)
                    <=> CastlingConditions(Self, k, 7, {5, 6}, {4, 5, 6})
               /\ OfferedBeyondReach(Self, k, <<r, 2>>)
                    <=> CastlingConditions(Self, k, 0, {1, 2, 3}, {4, 3, 2})

\* an unmoved king and rook with empty squares between them, the king not
\* in check and its destination safe, but the square it would cross attacked
C9_Witness ==
    \E k \in OnBoard(Self) :
        /\ pieces[k].piece_type = KING
        /\ pieces[k].color = current_turn
        /\ CastlingConditions(Self, k, 7, {5, 6}, {4, 6})
        /\ AttackedBy(Self, <<HomeRow(pieces[k].color), 5>>,
                      Other(pieces[k].color))
        /\ ~OfferedBeyondReach(Self, k, <<HomeRow(pieces[k].color), 6>>)

\* move_piece executed a king move of two files in this step
CastlingExecuted ==
    /\ MoveExecuted
    /\ pieces[last_move'[1]].piece_type = KING
    /\ Abs(last_move'[2][2] - last_move'[3][2]) = 2

\* C10: when move_piece executes a king move of two files, the rook of that
\* rank goes from column 7 to column 5 (kingside) or from column 0 to
\* column 3 (queenside), its old square is left empty, king and rook both
\* have has_moved set afterwards, and no other piece changes square.
C10_CastlingRelocatesRook ==
    [][CastlingExecuted =>
          LET king == last_move'[1]
              row == last_move'[2][1]
              kingside == last_move'[3][2] > last_move'[2][2]
              rook_col == IF kingside THEN 7 ELSE 0
              new_rook_col == IF kingside THEN 5 ELSE 3
              rook == board[row][rook_col]
          IN /\ rook # None
             /\ pieces[rook].piece_type = ROOK
             /\ board'[row][rook_col] = None
             /\ board'[row][new_rook_col] = rook
             /\ pieces'[rook].position = <<row, new_rook_col>>
             /\ pieces'[rook].has_moved
             /\ PieceAt(last_move'[2]) = king
             /\ board'[last_move'[2][1]][last_move'[2][2]] = None
             /\ board'[last_move'[3][1]][last_move'[3][2]] = king
             /\ pieces'[king].position = last_move'[3]
             /\ pieces'[king].has_moved
             /\ \A q \in Squares \ {last_move'[2], last_move'[3],
                                    <<row, rook_col>>, <<row, new_rook_col>>} :
                    board'[q[1]][q[2]] = board[q[1]][q[2]]
             /\ DOMAIN pieces' = DOMAIN pieces
             /\ \A id \in DOMAIN pieces \ {king, rook} :
                    pieces'[id].position = pieces[id].position]_vars

\* a castling move has just been executed
C10_Witness ==
    /\ last_move # NoneT
    /\ pieces[last_move[1]].piece_type = KING
    /\ Abs(last_move[2][2] - last_move[3][2]) = 2
    /\ PieceAt(last_move[3]) = last_move[1]

\* in object state s every piece a grid cell references records that cell
\* as its position, and no piece is referenced by two cells
GridConsistent(s) ==
    /\ \A q \in Squares :
           s.board[q[1]][q[2]] # None =>
               s.pieces[s.board[q[1]][q[2]]].position = q
    /\ \A q1 \in Squares : \A q2 \in Squares :
           (s.board[q1[1]][q1[2]] # None /\ q1 # q2) =>
               s.board[q1[1]][q1[2]] # s.board[q2[1]][q2[2]]

\* C11: in every state reached by clicks, executed moves, legal-move
\* queries and oracle-applied moves, each piece a grid cell references has
\* that cell as its position and is referenced by no other cell; the same
\* is true of the state any get_valid_moves query and any accepted
\* move_piece call would leave.
C11_GridMatchesPositions ==
    /\ GridConsistent(Self)
    /\ \A id \in OnBoard(Self) :
           /\ GridConsistent(get_valid_moves(Self, id).s)
           /\ \A k \in 1..Len(valid_moves) :
                  GridConsistent(move_piece(Self, id, valid_moves[k]).s)

\* the oracle branch has just applied a two-file king move
C11_Witness ==
    /\ last_move # NoneT
    /\ pieces[last_move[1]].piece_type = KING
    /\ pieces[last_move[1]].color = BLACK
    /\ Abs(last_move[2][2] - last_move[3][2]) = 2
    /\ PieceAt(last_move[3]) = last_move[1]

\* the opposite back rank of a colour
LastRank(color) == IF color = WHITE THEN 0 ELSE 7

\* no pawn stands on the back rank opposite to its colour
NoPawnOnLastRank ==
    \A c \in Rows : \A color \in {WHITE, BLACK} :
        LET id == board[LastRank(color)][c]
        IN id # None =>
               ~(pieces[id].piece_type = PAWN /\ pieces[id].color = color)

\* C12: when move_piece executes a pawn move onto the opposite back rank,
\* the destination afterwards holds a Queen of the mover's colour, not the
\* pawn; so after any sequence of executed moves no White pawn stands on
\* row 0 and no Black pawn on row 7.
C12_Promotion ==
    /\ []NoPawnOnLastRank
    /\ [][(/\ MoveExecuted
           /\ pieces[last_move'[1]].piece_type = PAWN
           /\ last_move'[3][1] = LastRank(pieces[last_move'[1]].color))
          => LET there == board'[last_move'[3][1]][last_move'[3][2]]
             IN /\ there # None
                /\ there # last_move'[1]
                /\ pieces'[there].piece_type = QUEEN
                /\ pieces'[there].color = pieces[last_move'[1]].color
                /\ pieces'[there].position = last_move'[3]]_vars

\* a pawn has just been moved onto the opposite back rank
C12_Witness ==
    /\ last_move # NoneT
    /\ pieces[last_move[1]].piece_type = PAWN
    /\ last_move[3][1] = LastRank(pieces[last_move[1]].color)
    /\ PieceAt(last_move[3]) # None

\* the number of legal moves get_valid_moves returns in s for the pieces
\* of colour `color` whose type is in `types`
RECURSIVE SumLegal(_, _)
SumLegal(s, ids) ==
    IF ids = {} THEN 0
    ELSE LET id == CHOOSE i \in ids : TRUE
         IN Len(get_valid_moves(s, id).legal_moves) + SumLegal(s, ids \ {id})

PiecesOf(s, color, types) ==
    {id \in OnBoard(s) : /\ s.pieces[id].color = color
                         /\ s.pieces[id].piece_type \in types}

\* C13: in the initial position get_valid_moves gives White exactly 20
\* moves, 16 by pawns and 4 by knights and none by any other piece, each
\* of them among the piece's pseudo-legal moves and no destination listed
\* twice; and the same for Black.
C13_InitialMoves ==
    board = reset_board =>
        \A color \in {WHITE, BLACK} :
            /\ SumLegal(Self, PiecesOf(Self, color, {PAWN})) = 16
            /\ SumLegal(Self, PiecesOf(Self, color, {KNIGHT})) = 4
            /\ SumLegal(Self, PiecesOf(Self, color,
                                       {BISHOP, ROOK, QUEEN, KING})) = 0
            /\ SumLegal(Self, PiecesOf(Self, color,
                   {PAWN, KNIGHT, BISHOP, ROOK, QUEEN, KING})) = 20
            /\ \A id \in PiecesOf(Self, color,
                   {PAWN, KNIGHT, BISHOP, ROOK, QUEEN, KING}) :
                   LET legal == get_valid_moves(Self, id).legal_moves
                   IN /\ \A k \in 1..Len(legal) :
                             InSeq(legal[k], PseudoLegalMoves(Self, id))
                      /\ \A j \in 1..Len(legal) : \A k \in 1..Len(legal) :
                             legal[j] = legal[k] => j = k

\* the initial position, with a knight selected and its two moves listed
C13_Witness ==
    /\ board = reset_board
    /\ selected_piece # None
    /\ pieces[selected_piece].piece_type = KNIGHT
    /\ Len(valid_moves) = 2

\* C14: with KNIGHT_EXTENDED_RANGE among the active powerups, a knight on
\* (4,3) whose 3/1 destination (1,2) holds no piece of its own colour, and
\* whose move there would not expose its king, has (1,2) in its legal-move
\* set; with the modifier inactive (1,2) is absent.
C14_ExtendedKnight ==
    \A id \in OnBoard(Self) :
        (/\ pieces[id].piece_type = KNIGHT
         /\ pieces[id].position = <<4, 3>>
         /\ EmptyOrEnemy(Self, 1, 2, pieces[id].color)
         /\ ~would_move_cause_check(Self, id, <<1, 2>>).in_check)
        => (InSeq(<<1, 2>>, get_valid_moves(Self, id).legal_moves)
                <=> KNIGHT_EXTENDED_RANGE \in powerup_system.active_powerups)

\* C15: with PAWN_FORWARD_CAPTURE among the active powerups, the moves
\* generated for a pawn include the square directly ahead when an enemy
\* piece stands on it; without the modifier an occupied square directly
\* ahead is never among a pawn's moves.
C15_ForwardCapture ==
    \A id \in OnBoard(Self) :
        pieces[id].piece_type = PAWN =>
            LET row == pieces[id].position[1]
                col == pieces[id].position[2]
                ahead == row + (IF pieces[id].color = WHITE THEN -1 ELSE 1)
            IN (is_valid_position(ahead, col) /\ board[ahead][col] # None)
               => (InSeq(<<ahead, col>>, get_pawn_moves(Self, id))
                     <=> /\ PAWN_FORWARD_CAPTURE
                             \in powerup_system.active_powerups
                         /\ pieces[board[ahead][col]].color
                             # pieces[id].color)

\* the pieces of the colour to move: those the oracle can name
Movable(s) == {id \in OnBoard(s) : s.pieces[id].color = s.current_turn}

\* C16: whatever piece and destination the oracle names, a move the run
\* loop applies for it (the suggestion or the substitute) is a move of the
\* named piece from its square to a destination that get_valid_moves of
\* that piece lists on the current board.
C16_OracleRevalidated ==
    current_turn = BLACK =>
        \A id \in Movable(Self) :
            LET legal == get_valid_moves(Self, id).legal_moves
            IN \A target_pos \in Squares :
                   \A out \in oracle_branch(Self, id, target_pos) :
                       out.board # board =>
                           /\ out.last_move # NoneT
                           /\ out.last_move[1] = id
                           /\ out.last_move[2] = pieces[id].position
                           /\ InSeq(out.last_move[3], legal)
                           /\ out.pieces[id].position = out.last_move[3]
                           /\ out.board[out.last_move[3][1]]
                                       [out.last_move[3][2]] = id

\* the oracle's scripted suggestion has just been applied as it was made
C16_Witness ==
    /\ step > 0
    /\ MainLines[line][step].kind = "oracle"
    /\ last_move # NoneT
    /\ PieceAt(MainLines[line][step].to) = last_move[1]
    /\ last_move[2] = MainLines[line][step].from
    /\ last_move[3] = MainLines[line][step].to

\* object state `out` is s after exactly the direct move of piece id to d:
\* two cells of the grid, the piece's position and flag, last_move, the
\* turn and the selection are written, and nothing else
OneMoveApplied(s, out, id, d) ==
    LET from == s.pieces[id].position
    IN /\ out.board = [r \in Rows |-> [c \in Rows |->
                          IF <<r, c>> = d THEN id
                          ELSE IF <<r, c>> = from THEN None
                          ELSE s.board[r][c]]]
       /\ out.pieces = [s.pieces EXCEPT ![id].position = d,
                                        ![id].has_moved = TRUE]
       /\ out.last_move = <<id, from, d>>
       /\ out.current_turn = Other(s.current_turn)
       /\ out.en_passant_target = s.en_passant_target
       /\ out.selected_piece = None
       /\ out.valid_moves = <<>>

\* C17: when the oracle names a destination that is not a legal move of
\* the piece it names, the piece is not put there; the board changes only
\* by one move of that piece to one of its own legal destinations, and if
\* the piece has no legal move nothing changes at all.
C17_IllegalSuggestion ==
    current_turn = BLACK =>
        \A id \in Movable(Self) :
            LET legal == get_valid_moves(Self, id).legal_moves
            IN \A target_pos \in Squares :
                   ~InSeq(target_pos, legal) =>
                       \A out \in oracle_branch(Self, id, target_pos) :
                           /\ \/ out.pieces[id].position # target_pos
                              \/ /\ target_pos = pieces[id].position
                                 /\ out = Self
                           /\ out.board[target_pos[1]][target_pos[2]] = id
                                  => PieceAt(target_pos) = id
                           /\ legal = <<>> => out = Self
                           /\ legal # <<>> =>
                                  \E k \in 1..Len(legal) :
                                      OneMoveApplied(Self, out, id, legal[k])

\* the oracle's scripted suggestion was not legal and another move of the
\* piece it named has been applied instead
C17_Witness ==
    /\ step > 0
    /\ MainLines[line][step].kind = "oracle"
    /\ last_move # NoneT
    /\ last_move[2] = MainLines[line][step].from
    /\ last_move[3] # MainLines[line][step].to
    /\ PieceAt(last_move[3]) = last_move[1]
    /\ PieceAt(MainLines[line][step].to) # last_move[1]

\* the state move_piece produces when piece id is the selection, its legal
\* moves are the cached list and target_pos is played
ViaMovePiece(s, id, target_pos) ==
    LET g == get_valid_moves(s, id)
    IN move_piece([g.s EXCEPT !.selected_piece = id,
                              !.valid_moves = g.legal_moves],
                  id, target_pos).s

\* object states a and b agree on the grid, on every piece's fields, on the
\* en-passant target, on last_move and on the side to move
SameGameState(a, b) ==
    /\ a.board = b.board
    /\ a.pieces = b.pieces
    /\ a.en_passant_target = b.en_passant_target
    /\ a.last_move = b.last_move
    /\ a.current_turn = b.current_turn

\* C18: the state the run loop leaves after applying a move for the oracle
\* is the state move_piece would leave for the same piece and destination:
\* rook relocated on castling, en-passant victim removed, pawn promoted,
\* en_passant_target and is_en_passant_vulnerable updated, has_moved,
\* last_move and current_turn set.
C18_OracleAsMovePiece ==
    current_turn = BLACK =>
        \A id \in Movable(Self) : \A target_pos \in Squares :
            \A out \in oracle_branch(Self, id, target_pos) :
                out.last_move # last_move =>
                    SameGameState(out, ViaMovePiece(Self, id, out.last_move[3]))

\* the grid cell a click at mouse_pos falls into
CellOf(mouse_pos) ==
    <<FloorDiv(mouse_pos[2], SQUARE_SIZE), FloorDiv(mouse_pos[1], SQUARE_SIZE)>>

\* a click at mouse_pos lands on a piece of the side to move
OnOwnPiece(mouse_pos) ==
    LET rc == CellOf(mouse_pos)
    IN /\ is_valid_position(rc[1], rc[2])
       /\ board[rc[1]][rc[2]] # None
       /\ pieces[board[rc[1]][rc[2]]].color = current_turn

\* C19: with no piece selected, a click on an empty square, on a piece of
\* the side not to move, or outside the 8x8 grid changes nothing.
C19_IgnoredClicks ==
    selected_piece = None =>
        \A mouse_pos \in MousePositions :
            ~OnOwnPiece(mouse_pos) => handle_click(Self, mouse_pos) = Self

\* three clicks have been handled, on an empty square, on a Black pawn with
\* White to move and one column right of the grid, and the game is still
\* in its initial state
C19_Witness ==
    /\ step = 3
    /\ Lines[line][1] = Centre(3, 3)
    /\ Lines[line][2] = Centre(1, 0)
    /\ Lines[line][3] = Centre(0, 8)
    /\ ~is_valid_position(CellOf(Lines[line][3])[1], CellOf(Lines[line][3])[2])
    /\ selected_piece = None
    /\ board = NewChessBoard.board
    /\ current_turn = WHITE

\* C20: a click on a piece of the side to move selects that piece with
\* valid_moves = get_valid_moves(piece), whether or not a piece was
\* selected before; the click executes no move: grid, pieces, current_turn,
\* last_move and en_passant_target stay as they were.
C20_SelectsOwnPiece ==
    \A mouse_pos \in MousePositions :
        OnOwnPiece(mouse_pos) =>
            LET rc == CellOf(mouse_pos)
                t == handle_click(Self, mouse_pos)
            IN /\ t.selected_piece = board[rc[1]][rc[2]]
               /\ t.valid_moves =
                      get_valid_moves(Self, board[rc[1]][rc[2]]).legal_moves
               /\ t.board = board
               /\ t.pieces = pieces
               /\ t.current_turn = current_turn
               /\ t.last_move = last_move
               /\ t.en_passant_target = en_passant_target

\* Black had a pawn selected and clicked its knight on (0, 6): the knight
\* is the selection, its moves are the cached list, and the last move is
\* still White's
C20_Witness ==
    /\ step = 8
    /\ Lines[line][7] = Centre(1, 4)
    /\ Lines[line][8] = Centre(0, 6)
    /\ current_turn = BLACK
    /\ selected_piece = board[0][6]
    /\ selected_piece # None
    /\ pieces[selected_piece].piece_type = KNIGHT
    /\ valid_moves = <<<<2, 5>>, <<2, 7>>>>
    /\ last_move[3] = <<5, 2>>

\* C21: with a piece selected, a click on a square of its legal-move set
\* executes that move of the selected piece (move_piece returns True, the
\* piece leaves its square and its side holds the destination, last_move
\* records it), hands the turn over and leaves nothing selected.
C21_LegalClickExecutes ==
    selected_piece # None =>
        /\ valid_moves = get_valid_moves(Self, selected_piece).legal_moves
        /\ \A k \in 1..Len(valid_moves) :
               LET d == valid_moves[k]
                   from == pieces[selected_piece].position
                   t == handle_click(Self, Centre(d[1], d[2]))
                   m == move_piece(Self, selected_piece, d)
               IN /\ m.ret /\ ~m.raised /\ t = m.s
                  /\ t.last_move = <<selected_piece, from, d>>
                  /\ t.board[from[1]][from[2]] = None
                  /\ t.board[d[1]][d[2]] # None
                  /\ t.pieces[t.board[d[1]][d[2]]].color = current_turn
                  /\ t.pieces[t.board[d[1]][d[2]]].position = d
                  /\ t.pieces[selected_piece].position = d
                  /\ t.current_turn = Other(current_turn)
                  /\ t.selected_piece = None
                  /\ t.valid_moves = <<>>

\* the last two clicks were on a piece and on one of its destinations: the
\* move is recorded, the other side is to move and nothing is selected
C21_Witness ==
    /\ step >= 2
    /\ last_move # NoneT
    /\ Lines[line][step - 1] = Centre(last_move[2][1], last_move[2][2])
    /\ Lines[line][step] = Centre(last_move[3][1], last_move[3][2])
    /\ current_turn = Other(pieces[last_move[1]].color)
    /\ selected_piece = None
    /\ valid_moves = <<>>

\* C22: with a piece selected, a click on an empty square or on an enemy
\* piece that is not among the selected piece's legal destinations (or a
\* click beside the grid) drops the selection and its cached moves and
\* changes nothing else.
C22_OtherClickDeselects ==
    selected_piece # None =>
        \A mouse_pos \in MousePositions :
            (~OnOwnPiece(mouse_pos) /\ ~InSeq(CellOf(mouse_pos), valid_moves))
                => handle_click(Self, mouse_pos)
                       = [Self EXCEPT !.selected_piece = None,
                                      !.valid_moves = <<>>]

\* White had the pawn on (6, 0) selected and clicked the Black pawn on
\* (1, 0), which it cannot capture: nothing is selected, the pawn has not
\* moved and White is still to move
C22_Witness ==
    /\ step = 13
    /\ Lines[line][10] = Centre(6, 0)
    /\ Lines[line][11] = Centre(3, 3)
    /\ Lines[line][12] = Centre(6, 0)
    /\ Lines[line][13] = Centre(1, 0)
    /\ board[1][0] # None /\ pieces[board[1][0]].color = BLACK
    /\ board[3][3] = None
    /\ board[6][0] # None /\ ~pieces[board[6][0]].has_moved
    /\ selected_piece = None
    /\ valid_moves = <<>>
    /\ current_turn = WHITE
    /\ last_move[3] = <<2, 5>>

\* C23: in every state reached by executed moves exactly one White king
\* and exactly one Black king stand on the board.
C23_OneKingEach ==
    /\ Cardinality(KingsOf(Self, WHITE)) = 1
    /\ Cardinality(KingsOf(Self, BLACK)) = 1

\* C24: on a board without a king of some colour, is_king_in_check of that
\* colour is False, would_move_cause_check is False for every pseudo-legal
\* move of every piece of that colour, and get_valid_moves returns the
\* pseudo-legal moves unfiltered.
C24_MissingKingDefault ==
    \A color \in {WHITE, BLACK} :
        KingsOf(Self, color) = {} =>
            /\ ~is_king_in_check(Self, color)
            /\ \A id \in OnBoard(Self) :
                   pieces[id].color = color =>
                       LET moves == PseudoLegalMoves(Self, id)
                       IN /\ \A k \in 1..Len(moves) :
                                 ~would_move_cause_check(Self, id, moves[k]).in_check
                          /\ get_valid_moves(Self, id).legal_moves = moves

\* White's king has been taken and White has selected a piece: the cached
\* moves are all its pseudo-legal moves
C24_Witness ==
    /\ KingsOf(Self, WHITE) = {}
    /\ current_turn = WHITE
    /\ selected_piece # None
    /\ valid_moves # <<>>
    /\ valid_moves = PseudoLegalMoves(Self, selected_piece)

\* centre and countdown of every cloud, in list order
Countdowns(clouds) ==
    [i \in 1..Len(clouds) |->
        <<clouds[i].center_position, clouds[i].turns_remaining>>]

\* the countdowns after one tick of every cloud: each is one lower, and a
\* cloud whose countdown reaches zero is gone
RECURSIVE TickedOnce(_)
TickedOnce(clouds) ==
    IF clouds = <<>> THEN <<>>
    ELSE (IF Head(clouds).turns_remaining - 1 > 0
          THEN << <<Head(clouds).center_position,
                    Head(clouds).turns_remaining - 1>> >>
          ELSE <<>>)
         \o TickedOnce(Tail(clouds))

\* this step executed a move and called update_poison_clouds after it
UpdateCalled == total_moves' = total_moves + 1

\* C25: with update_poison_clouds called once after every executed move
\* and a count that goes up by one per move, every cloud that exists when
\* Black has just completed a pair is ticked exactly once by that call,
\* and no cloud is ticked by a call made when Black is to move.
C25_OneTickPerPair ==
    [][UpdateCalled =>
          Countdowns(powerup_system'.poison_clouds)
              = IF current_turn' = WHITE
                THEN TickedOnce(powerup_system.poison_clouds)
                ELSE Countdowns(powerup_system.poison_clouds)]_vars

\* C26: a move that captures a pawn listed in poisoned_pawns leaves, when
\* it returns, a poison cloud centred on the capture square and the pawn
\* no longer in poisoned_pawns.
C26_CaptureNotifies ==
    [][\A d \in Squares :
          (/\ MoveExecuted
           /\ last_move'[3] = d
           /\ PieceAt(d) # None
           /\ InSeq(PieceAt(d), powerup_system.poisoned_pawns))
          => /\ ~InSeq(PieceAt(d), powerup_system'.poisoned_pawns)
             /\ \E i \in 1..Len(powerup_system'.poison_clouds) :
                    powerup_system'.poison_clouds[i].center_position = d]_vars

\* the pawns on the grid whose is_en_passant_vulnerable is set
VulnerablePawns(s) ==
    {id \in OnBoard(s) : /\ s.pieces[id].piece_type = PAWN
                         /\ s.pieces[id].is_en_passant_vulnerable}

\* C27: after every move executed by move_piece at most one pawn on the
\* board is vulnerable; if the move was a two-square pawn advance, that
\* pawn is the vulnerable one and en_passant_target is the empty square
\* directly behind it; after any other move no pawn is vulnerable and
\* en_passant_target is None.
C27_VulnerableIffDoublePush ==
    last_move # NoneT =>
        /\ Cardinality(VulnerablePawns(Self)) <= 1
        /\ IF LastWasDoublePush
           THEN LET pawn == last_move[1]
                    behind == IF pieces[pawn].color = WHITE THEN 1 ELSE -1
                IN /\ VulnerablePawns(Self) = {pawn}
                   /\ pieces[pawn].position = last_move[3]
                   /\ en_passant_target =
                          <<last_move[3][1] + behind, last_move[3][2]>>
                   /\ PieceAt(en_passant_target) = None
           ELSE /\ VulnerablePawns(Self) = {}
                /\ en_passant_target = NoneT

\* a pawn has just advanced two squares; an enemy pawn on a neighbouring
\* file that reached its own fourth rank earlier is not vulnerable
C27_Witness ==
    /\ LastWasDoublePush
    /\ VulnerablePawns(Self) = {last_move[1]}
    /\ \E id \in OnBoard(Self) :
           /\ pieces[id].piece_type = PAWN
           /\ pieces[id].color = current_turn
           /\ pieces[id].position[1] = (IF current_turn = WHITE THEN 4 ELSE 3)
           /\ Abs(pieces[id].position[2] - last_move[3][2]) = 1
           /\ ~pieces[id].is_en_passant_vulnerable

\* the state move_piece leaves when it really executes the pseudo-legal
\* move of piece id to d
ReallyExecuted(s, id, d) ==
    move_piece([s EXCEPT !.selected_piece = id,
                         !.valid_moves = PseudoLegalMoves(s, id)],
               id, d).s

\* C28: get_valid_moves(piece) lists a pseudo-legal destination of the
\* piece exactly if executing the move leaves the mover's king unattacked.
C28_ExactlyTheSafeMoves ==
    \A id \in Movable(Self) :
        LET moves == PseudoLegalMoves(Self, id)
            legal == get_valid_moves(Self, id).legal_moves
        IN \A k \in 1..Len(moves) :
               InSeq(moves[k], legal)
                   <=> ~is_king_in_check(ReallyExecuted(Self, id, moves[k]),
                                         current_turn)

\* the members of a Python list of squares
SquaresOf(moves) == {moves[k] : k \in 1..Len(moves)}

\* the squares a piece of the given colour standing on p reaches along the
\* directions dirs: every square before it on the ray is empty and the
\* square itself is empty or holds an enemy piece
Reach(s, color, p, dirs) ==
    {q \in Squares :
        \E d \in dirs : \E i \in 1..(BOARD_SIZE - 1) :
            /\ q = <<p[1] + i * d[1], p[2] + i * d[2]>>
            /\ \A j \in 1..(i - 1) :
                   s.board[p[1] + j * d[1]][p[2] + j * d[2]] = None
            /\ EmptyOrEnemy(s, q[1], q[2], color)}

Diagonals == {<<-1, -1>>, <<-1, 1>>, <<1, -1>>, <<1, 1>>}

Straights == {<<0, -1>>, <<0, 1>>, <<-1, 0>>, <<1, 0>>}

\* C29: a bishop, rook or queen is given, along each of its directions,
\* the empty squares up to the first occupied square, and that square iff
\* it holds an enemy piece; nothing behind it and no square of a friendly
\* piece; each square once.  The queen's moves are the rook's and the
\* bishop's from her square.
C29_RaysStopAtFirstPiece ==
    \A id \in OnBoard(Self) :
        LET piece == pieces[id]
        IN /\ piece.piece_type = BISHOP =>
                  /\ SquaresOf(get_bishop_moves(Self, id))
                         = Reach(Self, piece.color, piece.position, Diagonals)
                  /\ Len(get_bishop_moves(Self, id))
                         = Cardinality(SquaresOf(get_bishop_moves(Self, id)))
           /\ piece.piece_type = ROOK =>
                  /\ SquaresOf(get_rook_moves(Self, id))
                         = Reach(Self, piece.color, piece.position, Straights)
                  /\ Len(get_rook_moves(Self, id))
                         = Cardinality(SquaresOf(get_rook_moves(Self, id)))
           /\ piece.piece_type = QUEEN =>
                  /\ SquaresOf(get_queen_moves(Self, id))
                         = Reach(Self, piece.color, piece.position,
                                 Diagonals \cup Straights)
                  /\ Len(get_queen_moves(Self, id))
                         = Cardinality(SquaresOf(get_queen_moves(Self, id)))
                  /\ SquaresOf(get_queen_moves(Self, id))
                         = SquaresOf(get_rook_moves(Self, id))
                           \cup SquaresOf(get_bishop_moves(Self, id))

\* a queen is given an enemy piece's square two or more steps away, has an
\* occupied square behind that piece on the same ray, and has a friendly
\* piece next to her
C29_Witness ==
    \E id \in OnBoard(Self) :
        /\ pieces[id].piece_type = QUEEN
        /\ \E d \in Diagonals \cup Straights : \E i \in 2..(BOARD_SIZE - 2) :
               LET p == pieces[id].position
                   q == <<p[1] + i * d[1], p[2] + i * d[2]>>
                   behind == <<q[1] + d[1], q[2] + d[2]>>
               IN /\ q \in Squares /\ behind \in Squares
                  /\ PieceAt(q) # None
                  /\ PieceAt(behind) # None
                  /\ q \in SquaresOf(get_queen_moves(Self, id))
                  /\ behind \notin SquaresOf(get_queen_moves(Self, id))
        /\ \E d \in Diagonals \cup Straights :
               LET p == pieces[id].position
                   n == <<p[1] + d[1], p[2] + d[2]>>
               IN /\ n \in Squares
                  /\ PieceAt(n) # None
                  /\ pieces[PieceAt(n)].color = pieces[id].color

\* the square a pawn standing on p reaches by k steps forward and a shift
\* of dc files
PawnSquare(color, p, k, dc) ==
    <<p[1] + k * (IF color = WHITE THEN -1 ELSE 1), p[2] + dc>>

\* square q is on the board and empty
EmptySquare(q) == q \in Squares /\ PieceAt(q) = None

\* C30: for every pawn, the two-square advance is generated iff the pawn
\* stands on its starting rank and the two squares ahead are empty; the
\* one-square advance iff the square ahead is on the board and empty; a
\* diagonal-forward square iff it is on the board and holds an enemy piece
\* or is en_passant_target; and nothing else is generated.
C30_PawnMoves ==
    \A id \in OnBoard(Self) :
        pieces[id].piece_type = PAWN =>
            LET color == pieces[id].color
                p == pieces[id].position
                generated == SquaresOf(get_pawn_moves(Self, id))
                one == PawnSquare(color, p, 1, 0)
                two == PawnSquare(color, p, 2, 0)
            IN /\ two \in generated
                      <=> /\ p[1] = (IF color = WHITE THEN 6 ELSE 1)
                          /\ EmptySquare(one)
                          /\ EmptySquare(two)
               /\ one \in generated <=> EmptySquare(one)
               /\ \A dc \in {-1, 1} :
                      LET q == PawnSquare(color, p, 1, dc)
                      IN q \in generated
                             <=> /\ q \in Squares
                                 /\ \/ /\ PieceAt(q) # None
                                       /\ pieces[PieceAt(q)].color # color
                                    \/ en_passant_target = q
               /\ generated \subseteq
                      {one, two, PawnSquare(color, p, 1, -1),
                       PawnSquare(color, p, 1, 1)}

\* a pawn on its starting rank has the square ahead free and the second
\* one occupied, and is given one advance only; and some pawn is given
\* en_passant_target, an empty diagonal square
C30_Witness ==
    /\ \E id \in OnBoard(Self) :
           /\ pieces[id].piece_type = PAWN
           /\ pieces[id].position[1] = (IF pieces[id].color = WHITE THEN 6 ELSE 1)
           /\ EmptySquare(PawnSquare(pieces[id].color, pieces[id].position, 1, 0))
           /\ ~EmptySquare(PawnSquare(pieces[id].color, pieces[id].position, 2, 0))
           /\ PawnSquare(pieces[id].color, pieces[id].position, 1, 0)
                  \in SquaresOf(get_pawn_moves(Self, id))
           /\ PawnSquare(pieces[id].color, pieces[id].position, 2, 0)
                  \notin SquaresOf(get_pawn_moves(Self, id))
    /\ \E id \in OnBoard(Self) :
           /\ pieces[id].piece_type = PAWN
           /\ en_passant_target # NoneT
           /\ en_passant_target \in SquaresOf(get_pawn_moves(Self, id))
           /\ PieceAt(en_passant_target) = None

\* Chebyshev distance between squares p and q
Chebyshev(p, q) ==
    IF Abs(p[1] - q[1]) >= Abs(p[2] - q[2])
    THEN Abs(p[1] - q[1]) ELSE Abs(p[2] - q[2])

\* piece id attacks square q: a pawn its two diagonal-forward squares, a
\* king the squares at distance 1, every other piece its pseudo-legal
\* destinations
AttacksSquare(id, q) ==
    LET piece == pieces[id]
    IN CASE piece.piece_type = PAWN ->
                \E dc \in {-1, 1} : q = PawnSquare(piece.color, piece.position, 1, dc)
         [] piece.piece_type = KING -> Chebyshev(piece.position, q) = 1
         [] OTHER -> q \in SquaresOf(PseudoLegalMoves(Self, id))

\* C31: is_square_under_attack(row, col, friendly_color) is true iff some
\* piece of the other colour attacks (row, col).
C31_AttackedIffAttackerExists ==
    \A q \in Squares : \A friendly_color \in {WHITE, BLACK} :
        is_square_under_attack(Self, q[1], q[2], friendly_color)
            <=> \E id \in OnBoard(Self) :
                    /\ pieces[id].color # friendly_color
                    /\ AttacksSquare(id, q)

\* the positions of the frames of method fn on the stack
FramesOf(fns) == {i \in 1..Len(call_stack) : call_stack[i].fn \in fns}

\* no frame of the castling code stands above a frame of
\* is_square_under_attack
NoCastlingUnderAttackTest ==
    \A i \in FramesOf({"is_square_under_attack"}) :
        \A j \in FramesOf({"get_king_moves", "can_castle_kingside",
                           "can_castle_queenside"}) : j < i

\* the longest chain of nested calls below get_valid_moves
LongestChain ==
    << "get_valid_moves", "get_king_moves", "can_castle_queenside",
       "is_square_under_attack", "get_moves_without_check_validation",
       "get_queen_moves", "get_bishop_moves", "is_valid_position" >>

\* is_square_under_attack and get_moves_without_check_validation are
\* never entered twice in one chain, and no chain is longer than
\* LongestChain
BoundedNesting ==
    /\ Cardinality(FramesOf({"is_square_under_attack"})) <= 1
    /\ Cardinality(FramesOf({"get_moves_without_check_validation"})) <= 1
    /\ Len(call_stack) <= Len(LongestChain)

\* C32: no call chain from is_square_under_attack reaches get_king_moves,
\* can_castle_kingside or can_castle_queenside; the nesting below
\* get_valid_moves has bounded depth; and every call of get_valid_moves
\* returns.
C32_AttackTestNeverCastles ==
    /\ [](NoCastlingUnderAttackTest /\ BoundedNesting)
    /\ (call_stack # <<>>) ~> (call_stack = <<>>)

\* the longest chain is on the stack: the castling test of a king asks
\* whether a square is attacked, and a queen's moves are generated for it
C32_Witness ==
    /\ Len(call_stack) = Len(LongestChain)
    /\ \A i \in 1..Len(call_stack) : call_stack[i].fn = LongestChain[i]

\* the squares of board s that hold a piece of the given colour
HeldBy(s, color) ==
    {q \in Squares : /\ s.board[q[1]][q[2]] # None
                     /\ s.pieces[s.board[q[1]][q[2]]].color = color}

\* the board after handle_click has selected piece id
Selected(id) ==
    LET g == get_valid_moves(Self, id)
    IN [g.s EXCEPT !.selected_piece = id, !.valid_moves = g.legal_moves]

\* the move of piece id to d takes something: d is occupied, or a pawn
\* moves diagonally to an empty square
Takes(id, d) ==
    \/ PieceAt(d) # None
    \/ pieces[id].piece_type = PAWN /\ d[2] # pieces[id].position[2]

\* what move_piece(id, d) has done to the piece counts: at most one piece
\* is gone, it is of the other colour, and nothing is gone when the move
\* takes nothing
CountsAfterMove(id, d, t) ==
    LET mover == pieces[id].color
        left == OnBoard(Self) \ OnBoard(t)
        promoted == IF t.board[d[1]][d[2]] # id THEN {id} ELSE {}
    IN /\ Cardinality(HeldBy(t, mover)) = Cardinality(HeldBy(Self, mover))
       /\ Cardinality(HeldBy(t, Other(mover)))
              \in {Cardinality(HeldBy(Self, Other(mover))),
                   Cardinality(HeldBy(Self, Other(mover))) - 1}
       /\ Cardinality(left \ promoted) <= 1
       /\ \A gone \in left \ promoted : pieces[gone].color = Other(mover)
       /\ promoted # {} =>
              /\ t.pieces[t.board[d[1]][d[2]]].color = mover
              /\ t.pieces[t.board[d[1]][d[2]]].piece_type = QUEEN
              /\ pieces[id].piece_type = PAWN
       /\ ~Takes(id, d) =>
              /\ left = promoted
              /\ Cardinality(HeldBy(t, Other(mover)))
                     = Cardinality(HeldBy(Self, Other(mover)))

\* C33: every move move_piece executes removes at most one piece from the
\* board, a piece of the colour opposite to the mover's; the number of
\* pieces never goes up; a move that takes nothing leaves both colours'
\* counts as they were, a promoted pawn being replaced one for one.
C33_AtMostOneEnemyRemoved ==
    \A id \in OnBoard(Self) :
        pieces[id].color = current_turn =>
            LET sel == Selected(id)
            IN \A k \in 1..Len(sel.valid_moves) :
                   LET m == move_piece(sel, id, sel.valid_moves[k])
                   IN m.ret => CountsAfterMove(id, sel.valid_moves[k], m.s)

\* a pawn of the side to move may take en passant: the move goes to an
\* empty square and removes the enemy pawn beside it
C33_Witness ==
    /\ en_passant_target # NoneT
    /\ \E id \in OnBoard(Self) :
           /\ pieces[id].color = current_turn
           /\ pieces[id].piece_type = PAWN
           /\ InSeq(en_passant_target, Selected(id).valid_moves)
           /\ Cardinality(HeldBy(move_piece(Selected(id), id, en_passant_target).s,
                                Other(current_turn)))
                  = Cardinality(HeldBy(Self, Other(current_turn))) - 1

\* C34: when nothing is selected the cached move list is empty; when a
\* piece is selected it stands on the board where its position says, it
\* belongs to the side to move, and the cached list is what
\* get_valid_moves returns for it on the board as it is now.
C34_CacheNeverStale ==
    /\ selected_piece = None => valid_moves = <<>>
    /\ selected_piece # None =>
           /\ selected_piece \in OnBoard(Self)
           /\ PieceAt(pieces[selected_piece].position) = selected_piece
           /\ pieces[selected_piece].color = current_turn
           /\ valid_moves = get_valid_moves(Self, selected_piece).legal_moves

\* a move has just been executed by two clicks and the next click has
\* selected a piece of the other side that has moves
C34_Witness ==
    /\ last_move # NoneT
    /\ selected_piece # None
    /\ selected_piece # last_move[1]
    /\ pieces[selected_piece].color = Other(pieces[last_move[1]].color)
    /\ valid_moves # <<>>

\* the in-bounds squares of the 3x3 block around a centre
Block(center_position) ==
    {q \in Squares : Chebyshev(q, center_position) <= 1}

\* the board the pending click of the poison driver leaves, on which
\* update_poison_clouds is called when a move was executed
AfterClick ==
    IF step < Len(PoisonLines[line])
    THEN handle_click(Self, PoisonLines[line][step + 1]) ELSE Self

\* the call made after this click ticks cloud c: two moves have passed
\* since its last tick and White is to move
Ticks(c) ==
    /\ total_moves + 1 - c.last_decremented_on_turn_count >= 2
    /\ AfterClick.current_turn = WHITE

\* that tick brings the countdown of cloud c to 0
Fires(c) == Ticks(c) /\ c.turns_remaining = 1

Survives(c) == ~Fires(c)

\* the squares of the clouds that fire in the call made after this click
FiringSquares ==
    UNION {Block(powerup_system.poison_clouds[i].center_position) :
               i \in {j \in 1..Len(powerup_system.poison_clouds) :
                          Fires(powerup_system.poison_clouds[j])}}

\* every listed cloud covers its block and has a positive countdown
CloudsPending ==
    \A i \in 1..Len(powerup_system.poison_clouds) :
        LET c == powerup_system.poison_clouds[i]
        IN /\ SquaresOf(c.affected_squares) = Block(c.center_position)
           /\ Len(c.affected_squares) = Cardinality(Block(c.center_position))
           /\ c.turns_remaining > 0

\* the clouds left by the call are the clouds that did not fire, in
\* order, each ticked or not
CloudsLeft ==
    LET kept == SelectSeq(powerup_system.poison_clouds, Survives)
        left == powerup_system'.poison_clouds
    IN /\ Len(left) = Len(kept)
       /\ \A i \in 1..Len(kept) :
              /\ left[i].center_position = kept[i].center_position
              /\ left[i].affected_squares = kept[i].affected_squares
              /\ left[i].turns_remaining =
                     IF Ticks(kept[i]) THEN kept[i].turns_remaining - 1
                     ELSE kept[i].turns_remaining

\* C35: a cloud covers exactly the in-bounds squares of the 3x3 block
\* around its centre; a call of update_poison_clouds that leaves its
\* countdown positive removes nothing because of it; the call that brings
\* the countdown to 0 empties every square of the block, leaves every
\* square outside the firing clouds' blocks as it was and takes the cloud
\* off poison_clouds, so no listed cloud has fired before.
C35_CloudFiresOnceOnItsBlock ==
    /\ []CloudsPending
    /\ [][UpdateCalled =>
             /\ \A q \in Squares :
                    board'[q[1]][q[2]] =
                        IF q \in FiringSquares THEN None
                        ELSE AfterClick.board[q[1]][q[2]]
             /\ pieces' = AfterClick.pieces
             /\ CloudsLeft]_vars

\* the cloud on (6, 7), at the edge of the board, has fired: the rook of
\* (7, 7) is gone from its square, the bishop on (7, 5) outside the block
\* stands, and no cloud is left
C35_Witness ==
    /\ powerup_system.poison_clouds = <<>>
    /\ PieceAt(<<7, 7>>) = None
    /\ PieceAt(<<6, 6>>) = None
    /\ PieceAt(<<7, 5>>) # None
    /\ \E id \in (1..Len(pieces)) \ OnBoard(Self) :
           /\ pieces[id].piece_type = ROOK
           /\ pieces[id].position = <<7, 7>>

\* this step executed a move of White: the turn went from White to Black
WhiteMoved == current_turn = WHITE /\ current_turn' = BLACK

\* C36: the counter of White's moves goes up by one with every move White
\* executes and with nothing else, and the powerup selection comes up
\* exactly when the counter reaches a positive multiple of 5.
C36_CountsWhiteMoves ==
    [][/\ powerup_system'.white_moves_count =
              IF WhiteMoved THEN powerup_system.white_moves_count + 1
              ELSE powerup_system.white_moves_count
       /\ (~powerup_system.show_powerup_selection
             /\ powerup_system'.show_powerup_selection)
              <=> /\ WhiteMoved
                  /\ powerup_system'.white_moves_count > 0
                  /\ powerup_system'.white_moves_count % 5 = 0]_vars

\* this step is a click on a button of the chooser: the selection goes
\* away and the buttons and the counter stay
ButtonClicked ==
    /\ ~powerup_system'.show_powerup_selection
    /\ powerup_system'.buttons = powerup_system.buttons
    /\ powerup_system'.white_moves_count = powerup_system.white_moves_count
    /\ current_turn' = current_turn
    /\ last_move' = last_move

\* this step is reset_game: a new ChessBoard with a new PowerUpSystem
GameReset ==
    /\ board' = NewChessBoard.board
    /\ current_turn' = NewChessBoard.current_turn
    /\ last_move' = NewChessBoard.last_move
    /\ powerup_system' = NewPowerUpSystem
    /\ total_moves' = 0

\* the chooser stays up and the game stands still
GameStands ==
    /\ powerup_system'.show_powerup_selection
    /\ board' = board
    /\ pieces' = pieces
    /\ current_turn' = current_turn
    /\ last_move' = last_move
    /\ selected_piece' = selected_piece
    /\ total_moves' = total_moves

CountOf(sq, x) == Cardinality({k \in 1..Len(sq) : sq[k] = x})

\* the two lists hold the same entries the same number of times
SameMultiset(sq, tq) ==
    /\ Len(sq) = Len(tq)
    /\ \A k \in 1..Len(sq) : CountOf(sq, sq[k]) = CountOf(tq, sq[k])

\* the consumables the player holds: those listed and the one whose use
\* has been started
Held(p) == Len(p.consumables) + (IF p.selecting_pawn_for_poison THEN 1 ELSE 0)

\* a started use that is cancelled leaves the consumables as they were
StartThenCancelRestores ==
    \A pos \in ConsumablePositions :
        LET h == handle_consumable_click(powerup_system, pos)
            c == cancel_pawn_selection(h.p)
        IN (h.ret /\ h.p.selecting_pawn_for_poison)
               => /\ SameMultiset(c.consumables, powerup_system.consumables)
                  /\ ~c.selecting_pawn_for_poison

\* cancelling with no selection in progress changes nothing
IdleCancelChangesNothing ==
    ~powerup_system.selecting_pawn_for_poison
        => cancel_pawn_selection(powerup_system) = powerup_system

\* a step after which the player holds fewer consumables marks a pawn
ConsumedByMarking ==
    Held(powerup_system') < Held(powerup_system)
        => Len(powerup_system'.poisoned_pawns)
               > Len(powerup_system.poisoned_pawns)

\* C38: starting the use of a Poisoned Pawn (handle_consumable_click) and
\* cancelling it (cancel_pawn_selection) restores the multiset of
\* consumables and clears selecting_pawn_for_poison; cancelling with no
\* selection in progress changes nothing; and a consumable is consumed,
\* removed without being put back, only by a step in which
\* select_pawn_for_poison marks a pawn.
C38_ConsumedOnlyByMarking ==
    /\ [](StartThenCancelRestores /\ IdleCancelChangesNothing)
    /\ [][ConsumedByMarking]_vars

====
